---------------------------- MODULE Spec2Model ----------------------------
(***************************************************************************)
(* FigJam to PowerPoint plugin: the sandbox side (src/src/code.ts), which  *)
(* extracts the selected canvas nodes into ExtractedNodeData records, and  *)
(* the converter (src/src/pptx-converter.ts), which turns those records    *)
(* into JSON shape records and XML text.                                   *)
(*                                                                         *)
(* Conventions of the model                                                *)
(*  - a JavaScript object is a record; an optional property that is absent *)
(*    (undefined) is a field that is not in the record's DOMAIN;           *)
(*  - a fractional number of [0,1] (colour channel, opacity, alpha, stop   *)
(*    position) is the integer n standing for n / ChannelDen;              *)
(*  - a thrown exception is the value Throw, which every caller passes on  *)
(*    until a try/catch handles it.                                        *)
(***************************************************************************)
EXTENDS Integers, Sequences, FiniteSets, TLC

VARIABLES
    \* ---- the pure-function harness of the Paint Normalizer
    paintIn,        \* the argument: a host paint array, or figma.mixed
    paintOut,       \* what the call returned (None before the call)
    paintPc,        \* "ready" | "fills" | "strokes": which function ran
    \* ---- the pure-function harness of the Node Extractor
    hostNode,       \* the argument: one host node (a SceneNode)
    nodeData,       \* what extractNodeData returned (NoData before the call)
    nodePc,         \* "ready" | "extracted" | "converted"
    shapeOut,       \* what nodeToShape returned for nodeData
    xmlNodeOut,     \* what nodeToXML returned for nodeData, as lines
    \* ---- the plugin: the sandbox (code.ts) and the UI iframe
    selection,      \* figma.currentPage.selection
    sandboxInbox,   \* pluginMessages sent by the UI, not yet handled
    uiInbox,        \* messages posted by the sandbox, not yet handled
    pluginClosed,   \* figma.closePlugin() was called
    sandboxRun,     \* history of the last processSelection: the selection
                    \* it read, the nodes it gave to extractNodeData and
                    \* the messages it posted
    exports,        \* how many times the export button was clicked
    exportDisabled, \* exportBtn.disabled
    status,         \* the class and the text of statusDiv
    infoShown,      \* what showInfo displayed (NoData while hidden)
    selectedFormat, \* the checked format radio button
    lastExtractedData, \* the UI's let lastExtractedData
    receivedFrom,   \* history: the selection lastExtractedData comes from
    uiPc,           \* "idle", or "writing" while handleDataReady awaits
                    \* navigator.clipboard.writeText
    clipboardContent, \* the calls of handleDataReady that await their
                    \* write: the format and the data of each text
    clipboard,      \* what was last written to the clipboard
    \* ---- the harness of the whole pipeline, selection to both outputs
    pipeSelection,  \* the selection given to processSelection
    pipeRun,        \* what processSelection did with it (NoData before)
    jsonOut,        \* PPTXConverter.toJSON of the data it posted: the object it
                    \* builds (output) and the text it returns, as lines
    xmlOut          \* PPTXConverter.toXML of the data it posted, as lines

paintVars == <<paintIn, paintOut, paintPc>>

nodeVars == <<hostNode, nodeData, nodePc, shapeOut, xmlNodeOut>>

sandboxVars == <<selection, sandboxInbox, uiInbox, pluginClosed, sandboxRun>>

uiVars == <<exports, exportDisabled, status, infoShown, selectedFormat,
            lastExtractedData, receivedFrom, uiPc, clipboardContent, clipboard>>

pluginVars == <<sandboxVars, uiVars>>

pipeVars == <<pipeSelection, pipeRun, jsonOut, xmlOut>>

(***************************************************************************)
(* Bounds                                                                  *)
(***************************************************************************)
\* the grid of fractional inputs: a channel c is n / ChannelDen, n \in 0..ChannelDen
ChannelDen == 100
\* the longest paint stack of one host node
MaxPaints == 2
\* the most children of one container
MaxChildren == 2
\* the deepest nesting of containers
MaxDepth == 2
\* the most nodes selected at once
MaxSelection == 2
\* the most clicks on the export button in one run of the plugin
MaxExports == 2

(***************************************************************************)
(* Values shared by the whole model                                        *)
(***************************************************************************)
\* no value yet (a variable before the call that sets it)
None == <<[none |-> TRUE]>>

\* an exception propagating out of a call that returns an object, and out of
\* a call that returns an array
Thrown == [exception |-> "TypeError"]

Throw == <<Thrown>>

\* a variable that holds an object, before the call that sets it
NoData == [none |-> TRUE]

\* figma.mixed, the host's sentinel for an unresolvable multi-value property
Mixed == <<[symbol |-> "figma.mixed"]>>

Has(obj, f) == f \in DOMAIN obj

(***************************************************************************)
(* Paint Normalizer: extractFills / extractStrokes                         *)
(***************************************************************************)
\* a variant that truncates: Math.floor(c * 255)
MathRound255_Floor(n) == (n * 255) \div ChannelDen

\* Math.round(c * 255) for the channel c = n / ChannelDen: Math.round is
\* floor(x + 1/2), and \div floors.
MathRound255(n) == (2 * n * 255 + ChannelDen) \div (2 * ChannelDen)

\* String.prototype.startsWith
StartsWith(s, prefix) ==
    /\ Len(s) >= Len(prefix)
    /\ SubSeq(s, 1, Len(prefix)) = prefix

\* fill.opacity !== undefined ? fill.opacity : 1
OpacityOrOne(fill) == IF Has(fill, "opacity") THEN fill.opacity ELSE ChannelDen

\* the callback of gradientStops.map
MapStop(stop) ==
    [position |-> stop.position,
     color    |-> [r |-> MathRound255(stop.color.r),
                   g |-> MathRound255(stop.color.g),
                   b |-> MathRound255(stop.color.b),
                   a |-> stop.color.a]]

\* a variant whose last arm passes the host's kind through
MapFill_NoPlaceholder(fill) ==
    IF fill.type = "SOLID" THEN
        [type    |-> "solid",
         color   |-> [r |-> MathRound255(fill.color.r),
                      g |-> MathRound255(fill.color.g),
                      b |-> MathRound255(fill.color.b)],
         opacity |-> OpacityOrOne(fill)]
    ELSE IF fill.type = "IMAGE" THEN
        [type      |-> "image",
         imageHash |-> fill.imageHash,
         scaleMode |-> fill.scaleMode,
         opacity   |-> OpacityOrOne(fill)]
    ELSE IF StartsWith(fill.type, "GRADIENT") THEN
        [type          |-> "gradient",
         gradientType  |-> fill.type,
         gradientStops |-> [i \in DOMAIN fill.gradientStops |->
                               MapStop(fill.gradientStops[i])],
         opacity       |-> OpacityOrOne(fill)]
    ELSE [type |-> fill.type]

\* the callback of .map in extractFills: one host paint to one Paint.
\* Reading a property of undefined (fill.color.r, fill.gradientStops.map)
\* throws a TypeError.
MapFill(fill) ==
    IF fill.type = "SOLID" THEN
        IF ~Has(fill, "color") THEN Thrown ELSE
        [type    |-> "solid",
         color   |-> [r |-> MathRound255(fill.color.r),
                      g |-> MathRound255(fill.color.g),
                      b |-> MathRound255(fill.color.b)],
         opacity |-> OpacityOrOne(fill)]
    ELSE IF fill.type = "IMAGE" THEN
        [type      |-> "image",
         imageHash |-> fill.imageHash,
         scaleMode |-> fill.scaleMode,
         opacity   |-> OpacityOrOne(fill)]
    ELSE IF StartsWith(fill.type, "GRADIENT") THEN
        IF ~Has(fill, "gradientStops") THEN Thrown ELSE
        [type          |-> "gradient",
         gradientType  |-> fill.type,
         gradientStops |-> [i \in DOMAIN fill.gradientStops |->
                               MapStop(fill.gradientStops[i])],
         opacity       |-> OpacityOrOne(fill)]
    ELSE [type |-> "unknown"]

\* a variant that keeps only the paints marked visible: fill.visible === true
IsVisiblePaint_Marked(fill) == Has(fill, "visible") /\ fill.visible = TRUE

\* the callback of .filter in extractFills: fill.visible !== false
IsVisiblePaint(fill) == ~(Has(fill, "visible") /\ fill.visible = FALSE)

RECURSIVE FilterVisible(_)
FilterVisible(fills) ==
    IF fills = <<>> THEN <<>>
    ELSE IF IsVisiblePaint(Head(fills))
         THEN <<Head(fills)>> \o FilterVisible(Tail(fills))
         ELSE FilterVisible(Tail(fills))

\* a variant without the figma.mixed test: filter is no method of a symbol
extractFills_NoMixedTest(fills) ==
    IF fills = Mixed THEN Throw
    ELSE LET kept   == FilterVisible(fills)
             mapped == [i \in DOMAIN kept |-> MapFill(kept[i])]
         IN  IF \E i \in DOMAIN mapped : mapped[i] = Thrown THEN Throw ELSE mapped

extractFills(fills) ==
    IF fills = Mixed THEN <<>>
    ELSE LET kept   == FilterVisible(fills)
             mapped == [i \in DOMAIN kept |-> MapFill(kept[i])]
         IN  IF \E i \in DOMAIN mapped : mapped[i] = Thrown THEN Throw ELSE mapped

extractStrokes(strokes) == extractFills(strokes)

(***************************************************************************)
(* Node Extractor: extractNodeData and the per-variant extractors          *)
(***************************************************************************)
\* the null that extractNodeData's signature allows it to return
Null == [null |-> TRUE]

\* v || 0
OrZero(v) == IF v = 0 THEN 0 ELSE v

extractTextContent(textNode) == textNode.characters

extractRectangleData(rect, baseData) ==
    LET fills   == extractFills(rect.fills)
        strokes == extractStrokes(rect.strokes)
    IN  IF fills = Throw \/ strokes = Throw THEN Thrown
        ELSE [cornerRadius |-> rect.cornerRadius,
              fills        |-> fills,
              strokes      |-> strokes,
              strokeWeight |-> rect.strokeWeight] @@ baseData

extractEllipseData(ellipse, baseData) ==
    LET fills   == extractFills(ellipse.fills)
        strokes == extractStrokes(ellipse.strokes)
    IN  IF fills = Throw \/ strokes = Throw THEN Thrown
        ELSE [fills        |-> fills,
              strokes      |-> strokes,
              strokeWeight |-> ellipse.strokeWeight] @@ baseData

extractPolygonData(polygon, baseData) ==
    LET fills   == extractFills(polygon.fills)
        strokes == extractStrokes(polygon.strokes)
    IN  IF fills = Throw \/ strokes = Throw THEN Thrown
        ELSE [fills        |-> fills,
              strokes      |-> strokes,
              strokeWeight |-> polygon.strokeWeight,
              shapeType    |-> "polygon-" \o ToString(polygon.pointCount)] @@ baseData

extractShapeWithTextData(shape, baseData) ==
    LET fills   == extractFills(shape.fills)
        strokes == extractStrokes(shape.strokes)
    IN  IF fills = Throw \/ strokes = Throw THEN Thrown
        ELSE [shapeType |-> shape.shapeType,
              fills     |-> fills,
              strokes   |-> strokes,
              text      |-> extractTextContent(shape.text)] @@ baseData

extractStickyData(sticky, baseData) ==
    LET fills == extractFills(sticky.fills)
    IN  IF fills = Throw THEN Thrown
        ELSE [fills |-> fills,
              text  |-> extractTextContent(sticky.text)] @@ baseData

extractTextData(textNode, baseData) ==
    LET fills == extractFills(textNode.fills)
    IN  IF fills = Throw THEN Thrown
        ELSE [text  |-> textNode.characters,
              fills |-> fills] @@ baseData

\* { x: endpoint.position?.x || 0, y: endpoint.position?.y || 0,
\*   endpointNodeId: endpoint.endpointNodeId }
ExtractEndpoint(endpoint) ==
    LET xy == [x |-> IF Has(endpoint, "position") THEN OrZero(endpoint.position.x) ELSE 0,
               y |-> IF Has(endpoint, "position") THEN OrZero(endpoint.position.y) ELSE 0]
    IN  IF Has(endpoint, "endpointNodeId")
        THEN [endpointNodeId |-> endpoint.endpointNodeId] @@ xy
        ELSE xy

extractConnectorData(connector, baseData) ==
    LET strokes == extractStrokes(connector.strokes)
    IN  IF strokes = Throw THEN Thrown
        ELSE [strokes        |-> strokes,
              strokeWeight   |-> connector.strokeWeight,
              connectorStart |-> ExtractEndpoint(connector.connectorStart),
              connectorEnd   |-> ExtractEndpoint(connector.connectorEnd)] @@ baseData

\* a variant without the "|| 0" defaults: a dimension the host does not
\* give is undefined and is left out
BaseData_NoDefaults(node) ==
    [id      |-> node.id,
     name    |-> node.name,
     type    |-> node.type,
     x       |-> node.x,
     y       |-> node.y,
     visible |-> node.visible]
        @@ (IF Has(node, "width") THEN [width |-> node.width] ELSE <<>>)
        @@ (IF Has(node, "height") THEN [height |-> node.height] ELSE <<>>)
        @@ (IF Has(node, "rotation") THEN [rotation |-> node.rotation] ELSE <<>>)

\* a variant that tags every node outside the handled types "OTHER"
BaseData_OtherTag(node) ==
    [id       |-> node.id,
     name     |-> node.name,
     type     |-> IF node.type \in {"RECTANGLE", "ELLIPSE", "POLYGON", "SHAPE_WITH_TEXT",
                                    "STICKY", "TEXT", "CONNECTOR", "GROUP", "FRAME"}
                  THEN node.type ELSE "OTHER",
     x        |-> node.x,
     y        |-> node.y,
     width    |-> IF Has(node, "width") THEN node.width ELSE 0,
     height   |-> IF Has(node, "height") THEN node.height ELSE 0,
     rotation |-> IF Has(node, "rotation") THEN node.rotation ELSE 0,
     visible  |-> node.visible]

\* the base properties common to all nodes
BaseData(node) ==
    [id       |-> node.id,
     name     |-> node.name,
     type     |-> node.type,
     x        |-> node.x,
     y        |-> node.y,
     width    |-> IF Has(node, "width") THEN node.width ELSE 0,
     height   |-> IF Has(node, "height") THEN node.height ELSE 0,
     rotation |-> IF Has(node, "rotation") THEN node.rotation ELSE 0,
     visible  |-> node.visible]

\* a variant that collects with unshift instead of push
KeepExtracted_Unshift(results) ==
    IF \E i \in DOMAIN results : results[i] = Thrown THEN Throw
    ELSE LET kept == SelectSeq(results, LAMBDA data : data # Null)
         IN  [i \in DOMAIN kept |-> kept[Len(kept) + 1 - i]]

\* the children loop of extractContainerData: a child whose extraction
\* returned null is skipped, an exception ends the loop
KeepExtracted(results) ==
    IF \E i \in DOMAIN results : results[i] = Thrown THEN Throw
    ELSE SelectSeq(results, LAMBDA data : data # Null)

RECURSIVE extractNodeData(_)

\* a variant that sets children only when some child was extracted
extractContainerData_NonEmpty(container, baseData) ==
    LET children == KeepExtracted([i \in DOMAIN container.children |->
                                      extractNodeData(container.children[i])])
    IN  IF children = Throw THEN Thrown
        ELSE IF children = <<>> THEN baseData
        ELSE [children |-> children] @@ baseData

extractContainerData(container, baseData) ==
    LET children == KeepExtracted([i \in DOMAIN container.children |->
                                      extractNodeData(container.children[i])])
    IN  IF children = Throw THEN Thrown
        ELSE [children |-> children] @@ baseData

extractNodeData(node) ==
    LET baseData == BaseData(node)
    IN  CASE node.type = "RECTANGLE"       -> extractRectangleData(node, baseData)
          [] node.type = "ELLIPSE"         -> extractEllipseData(node, baseData)
          [] node.type = "POLYGON"         -> extractPolygonData(node, baseData)
          [] node.type = "SHAPE_WITH_TEXT" -> extractShapeWithTextData(node, baseData)
          [] node.type = "STICKY"          -> extractStickyData(node, baseData)
          [] node.type = "TEXT"            -> extractTextData(node, baseData)
          [] node.type = "CONNECTOR"       -> extractConnectorData(node, baseData)
          [] node.type \in {"GROUP", "FRAME"} -> extractContainerData(node, baseData)
          [] OTHER                         -> baseData


(***************************************************************************)
(* PPTXConverter: the Shape Mapper and the JSON and XML serializers        *)
(***************************************************************************)
\* the empty object: spreading it adds nothing
NoFields == <<>>

\* the lookup table of mapNodeTypeToPPTX
NodeTypeMapping ==
    [RECTANGLE       |-> "rectangle",
     ELLIPSE         |-> "ellipse",
     POLYGON         |-> "polygon",
     SHAPE_WITH_TEXT |-> "shape",
     STICKY          |-> "textbox",
     TEXT            |-> "text",
     CONNECTOR       |-> "line",
     GROUP           |-> "group",
     FRAME           |-> "frame",
     LINE            |-> "line"]

\* a variant whose fallback is 'rectangle'
mapNodeTypeToPPTX_Rectangle(nodeType) ==
    IF nodeType \in DOMAIN NodeTypeMapping THEN NodeTypeMapping[nodeType] ELSE "rectangle"

\* mapping[nodeType] || 'shape'
mapNodeTypeToPPTX(nodeType) ==
    IF nodeType \in DOMAIN NodeTypeMapping THEN NodeTypeMapping[nodeType] ELSE "shape"

\* a property copied from a value that may be undefined
CopyOpacity(paint) == IF Has(paint, "opacity") THEN [opacity |-> paint.opacity] ELSE NoFields

\* the truthiness of an optional number and of an optional string
TruthyNumber(obj, f) == Has(obj, f) /\ obj[f] # 0

TruthyString(obj, f) == Has(obj, f) /\ obj[f] # ""

\* node.fills && node.fills.length > 0
HasPaints(node, f) == Has(node, f) /\ Len(node[f]) > 0

\* a variant that takes the first solid fill of the list, wherever it is
ShapeFill_FirstSolid(node) ==
    IF ~HasPaints(node, "fills") THEN NoFields
    ELSE LET solids == SelectSeq(node.fills, LAMBDA paint : paint.type = "solid")
         IN  IF solids = <<>> THEN NoFields
             ELSE [fill |-> [type |-> "solid", color |-> solids[1].color]
                               @@ CopyOpacity(solids[1])]

\* the "Add fill" block of nodeToShape
ShapeFill(node) ==
    IF ~HasPaints(node, "fills") THEN NoFields
    ELSE LET fill == node.fills[1]
         IN  IF fill.type = "solid"
             THEN [fill |-> [type |-> "solid", color |-> fill.color] @@ CopyOpacity(fill)]
             ELSE IF fill.type = "gradient"
             THEN [fill |-> [type |-> "gradient", gradientStops |-> fill.gradientStops]
                               @@ CopyOpacity(fill)]
             ELSE NoFields

\* the "Add stroke" block of nodeToShape
ShapeStroke(node) ==
    IF ~(HasPaints(node, "strokes") /\ TruthyNumber(node, "strokeWeight")) THEN NoFields
    ELSE LET stroke == node.strokes[1]
         IN  IF stroke.type = "solid"
             THEN [stroke |-> [color |-> stroke.color, width |-> node.strokeWeight]
                                 @@ CopyOpacity(stroke)]
             ELSE NoFields

\* the "Add text" block of nodeToShape
ShapeText(node) ==
    IF TruthyString(node, "text") THEN [text |-> node.text] ELSE NoFields

\* the "Add type-specific properties" block of nodeToShape
ShapeProperties(node) ==
    LET corner == IF Has(node, "cornerRadius")
                  THEN [cornerRadius |-> node.cornerRadius] ELSE NoFields
        kind   == IF TruthyString(node, "shapeType")
                  THEN [shapeType |-> node.shapeType] ELSE NoFields
    IN  IF Has(node, "cornerRadius") \/ TruthyString(node, "shapeType")
        THEN [properties |-> kind @@ corner]
        ELSE NoFields

nodeToShape(node) ==
    [type     |-> mapNodeTypeToPPTX(node.type),
     position |-> [x |-> node.x, y |-> node.y],
     size     |-> [width |-> node.width, height |-> node.height],
     rotation |-> node.rotation]
    @@ ShapeFill(node) @@ ShapeStroke(node) @@ ShapeText(node) @@ ShapeProperties(node)

\* '  '.repeat(indent), and the indentation of JSON.stringify(.., null, 2)
RECURSIVE Spaces(_)
Spaces(indent) == IF indent = 0 THEN "" ELSE "  " \o Spaces(indent - 1)

\* the text of an integer in a template literal and in JSON
NumText(n) == ToString(n)

\* the text of the fraction n / ChannelDen in a template literal and in JSON:
\* its decimal form when it has one of at most two digits, spelled n/d when not
FracText(n) ==
    IF n % ChannelDen = 0 THEN ToString(n \div ChannelDen)
    ELSE IF (n * 100) % ChannelDen # 0 THEN ToString(n) \o "/" \o ToString(ChannelDen)
    ELSE LET h == (n * 100) \div ChannelDen
         IN  "0." \o (IF h % 10 = 0 THEN ToString(h \div 10)
                      ELSE IF h < 10 THEN "0" \o ToString(h)
                      ELSE ToString(h))

\* the object that toJSON builds and hands to JSON.stringify; now is
\* new Date().toISOString()
ExportDocument(nodes, pageInfo, now) ==
    [format     |-> "figjam2pptx",
     version    |-> "1.0.0",
     exportDate |-> now,
     page       |-> [name |-> pageInfo.name, width |-> pageInfo.width,
                     height |-> pageInfo.height],
     shapes     |-> [i \in DOMAIN nodes |-> nodeToShape(nodes[i])]]

\* JSON.stringify of a string: quotes, backslashes and control characters
\* are escaped
RECURSIVE JSONEscape(_)
JSONEscape(str) ==
    IF Len(str) = 0 THEN ""
    ELSE LET c == SubSeq(str, 1, 1)
         IN  (CASE c = "\"" -> "\\\""
                [] c = "\\" -> "\\\\"
                [] c = "\n" -> "\\n"
                [] c = "\t" -> "\\t"
                [] OTHER    -> c) \o JSONEscape(SubSeq(str, 2, Len(str)))

\* a variant that puts the string between quotes as it is
JSONQuote_Raw(str) == "\"" \o str \o "\""

JSONQuote(str) == "\"" \o JSONEscape(str) \o "\""

\* JSON.stringify(value, null, 2) writes a value as lines: the first line
\* follows what precedes the value, the others are indented in full.
\* The members or elements of a container, a comma after each but the last
RECURSIVE WithCommas(_)
WithCommas(blocks) ==
    IF blocks = <<>> THEN <<>>
    ELSE LET block == Head(blocks)
         IN  IF Len(blocks) = 1 THEN block
             ELSE SubSeq(block, 1, Len(block) - 1)
                     \o <<block[Len(block)] \o ",">> \o WithCommas(Tail(blocks))

JSONObject(indent, members) ==
    IF members = <<>> THEN <<"{}">>
    ELSE <<"{">> \o WithCommas(members) \o <<Spaces(indent) \o "}">>

JSONArray(indent, elements) ==
    IF elements = <<>> THEN <<"[]">>
    ELSE <<"[">> \o WithCommas(elements) \o <<Spaces(indent) \o "]">>

\* one member of an object at the given depth, one element of an array
JSONMember(indent, key, value) ==
    <<Spaces(indent) \o JSONQuote(key) \o ": " \o Head(value)>> \o Tail(value)

JSONElement(indent, value) == <<Spaces(indent) \o Head(value)>> \o Tail(value)

\* a property whose value is undefined is left out
JSONOptional(present, member) == IF present THEN <<member>> ELSE <<>>

JSONColor(indent, color) ==
    JSONObject(indent,
        <<JSONMember(indent + 1, "r", <<NumText(color.r)>>),
          JSONMember(indent + 1, "g", <<NumText(color.g)>>),
          JSONMember(indent + 1, "b", <<NumText(color.b)>>)>>
        \o JSONOptional(Has(color, "a"), JSONMember(indent + 1, "a", <<FracText(color.a)>>)))

JSONStop(indent, stop) ==
    JSONObject(indent,
        <<JSONMember(indent + 1, "position", <<FracText(stop.position)>>),
          JSONMember(indent + 1, "color", JSONColor(indent + 1, stop.color))>>)

JSONFill(indent, fill) ==
    JSONObject(indent,
        <<JSONMember(indent + 1, "type", <<JSONQuote(fill.type)>>)>>
        \o JSONOptional(Has(fill, "color"),
              JSONMember(indent + 1, "color", JSONColor(indent + 1, fill.color)))
        \o JSONOptional(Has(fill, "gradientStops"),
              JSONMember(indent + 1, "gradientStops",
                 JSONArray(indent + 1,
                    [i \in DOMAIN fill.gradientStops |->
                        JSONElement(indent + 2, JSONStop(indent + 2, fill.gradientStops[i]))])))
        \o JSONOptional(Has(fill, "opacity"),
              JSONMember(indent + 1, "opacity", <<FracText(fill.opacity)>>)))

JSONStroke(indent, stroke) ==
    JSONObject(indent,
        <<JSONMember(indent + 1, "color", JSONColor(indent + 1, stroke.color)),
          JSONMember(indent + 1, "width", <<NumText(stroke.width)>>)>>
        \o JSONOptional(Has(stroke, "opacity"),
              JSONMember(indent + 1, "opacity", <<FracText(stroke.opacity)>>)))

JSONProperties(indent, properties) ==
    JSONObject(indent,
        JSONOptional(Has(properties, "cornerRadius"),
           JSONMember(indent + 1, "cornerRadius", <<NumText(properties.cornerRadius)>>))
        \o JSONOptional(Has(properties, "shapeType"),
              JSONMember(indent + 1, "shapeType", <<JSONQuote(properties.shapeType)>>)))

JSONPair(indent, a, x, b, y) ==
    JSONObject(indent,
        <<JSONMember(indent + 1, a, <<NumText(x)>>), JSONMember(indent + 1, b, <<NumText(y)>>)>>)

JSONShape(indent, shape) ==
    JSONObject(indent,
        <<JSONMember(indent + 1, "type", <<JSONQuote(shape.type)>>),
          JSONMember(indent + 1, "position",
             JSONPair(indent + 1, "x", shape.position.x, "y", shape.position.y)),
          JSONMember(indent + 1, "size",
             JSONPair(indent + 1, "width", shape.size.width, "height", shape.size.height)),
          JSONMember(indent + 1, "rotation", <<NumText(shape.rotation)>>)>>
        \o JSONOptional(Has(shape, "fill"),
              JSONMember(indent + 1, "fill", JSONFill(indent + 1, shape.fill)))
        \o JSONOptional(Has(shape, "stroke"),
              JSONMember(indent + 1, "stroke", JSONStroke(indent + 1, shape.stroke)))
        \o JSONOptional(Has(shape, "text"),
              JSONMember(indent + 1, "text", <<JSONQuote(shape.text)>>))
        \o JSONOptional(Has(shape, "properties"),
              JSONMember(indent + 1, "properties",
                 JSONProperties(indent + 1, shape.properties))))

\* JSON.stringify(output, null, 2), as the lines of the text
JSONStringify(output) ==
    JSONObject(0,
        <<JSONMember(1, "format", <<JSONQuote(output.format)>>),
          JSONMember(1, "version", <<JSONQuote(output.version)>>),
          JSONMember(1, "exportDate", <<JSONQuote(output.exportDate)>>),
          JSONMember(1, "page",
             JSONObject(1,
                <<JSONMember(2, "name", <<JSONQuote(output.page.name)>>),
                  JSONMember(2, "width", <<NumText(output.page.width)>>),
                  JSONMember(2, "height", <<NumText(output.page.height)>>)>>)),
          JSONMember(1, "shapes",
             JSONArray(1, [i \in DOMAIN output.shapes |->
                             JSONElement(2, JSONShape(2, output.shapes[i]))]))>>)

toJSON(nodes, pageInfo, now) == JSONStringify(ExportDocument(nodes, pageInfo, now))

\* str.replace(/c/g, by) for the one-character pattern c
RECURSIVE ReplaceAll(_, _, _)
ReplaceAll(str, c, by) ==
    IF Len(str) = 0 THEN ""
    ELSE (IF SubSeq(str, 1, 1) = c THEN by ELSE SubSeq(str, 1, 1))
            \o ReplaceAll(SubSeq(str, 2, Len(str)), c, by)

\* a variant that replaces the ampersand last
escapeXML_AmpersandLast(str) ==
    ReplaceAll(ReplaceAll(ReplaceAll(ReplaceAll(ReplaceAll(str,
        "<", "&lt;"), ">", "&gt;"), "\"", "&quot;"), "'", "&apos;"), "&", "&amp;")

\* escapeXML applied to a string
escapeXML(str) ==
    ReplaceAll(ReplaceAll(ReplaceAll(ReplaceAll(ReplaceAll(str,
        "&", "&amp;"), "<", "&lt;"), ">", "&gt;"), "\"", "&quot;"), "'", "&apos;")

\* opacity || 1, strokeWeight || 1
FracOrOne(obj, f) == IF TruthyNumber(obj, f) THEN obj[f] ELSE ChannelDen

NumOrOne(obj, f) == IF TruthyNumber(obj, f) THEN obj[f] ELSE 1

\* the <stop> elements of a gradient fill
XMLStops(stops, spaces) ==
    [j \in DOMAIN stops |->
        spaces \o "      <stop position=\"" \o FracText(stops[j].position)
            \o "\" r=\"" \o NumText(stops[j].color.r)
            \o "\" g=\"" \o NumText(stops[j].color.g)
            \o "\" b=\"" \o NumText(stops[j].color.b)
            \o "\" a=\"" \o FracText(stops[j].color.a) \o "\"/>"]

\* the "Fill" block of nodeToXML
XMLFill(node, spaces) ==
    IF ~HasPaints(node, "fills") THEN <<>>
    ELSE LET fill == node.fills[1]
         IN  <<spaces \o "  <fill>">>
             \o (IF fill.type = "solid"
                 THEN <<spaces \o "    <solid r=\"" \o NumText(fill.color.r)
                          \o "\" g=\"" \o NumText(fill.color.g)
                          \o "\" b=\"" \o NumText(fill.color.b)
                          \o "\" opacity=\"" \o FracText(FracOrOne(fill, "opacity")) \o "\"/>">>
                 ELSE IF fill.type = "gradient"
                 THEN <<spaces \o "    <gradient type=\"" \o fill.gradientType \o "\">">>
                      \o (IF Has(fill, "gradientStops")
                          THEN XMLStops(fill.gradientStops, spaces) ELSE <<>>)
                      \o <<spaces \o "    </gradient>">>
                 ELSE <<>>)
             \o <<spaces \o "  </fill>">>

\* the "Stroke" block of nodeToXML
XMLStroke(node, spaces) ==
    IF ~HasPaints(node, "strokes") THEN <<>>
    ELSE LET stroke == node.strokes[1]
         IN  <<spaces \o "  <stroke weight=\"" \o NumText(NumOrOne(node, "strokeWeight")) \o "\">">>
             \o (IF stroke.type = "solid"
                 THEN <<spaces \o "    <color r=\"" \o NumText(stroke.color.r)
                          \o "\" g=\"" \o NumText(stroke.color.g)
                          \o "\" b=\"" \o NumText(stroke.color.b)
                          \o "\" opacity=\"" \o FracText(FracOrOne(stroke, "opacity")) \o "\"/>">>
                 ELSE <<>>)
             \o <<spaces \o "  </stroke>">>

\* the "Text" block of nodeToXML
XMLText(node, spaces) ==
    IF TruthyString(node, "text")
    THEN <<spaces \o "  <text><![CDATA[" \o node.text \o "]]></text>">>
    ELSE <<>>

\* the "Properties" block of nodeToXML
XMLProperties(node, spaces) ==
    IF ~(Has(node, "cornerRadius") \/ TruthyString(node, "shapeType")) THEN <<>>
    ELSE <<spaces \o "  <properties>">>
         \o (IF Has(node, "cornerRadius")
             THEN <<spaces \o "    <cornerRadius>" \o NumText(node.cornerRadius)
                      \o "</cornerRadius>">>
             ELSE <<>>)
         \o (IF TruthyString(node, "shapeType")
             THEN <<spaces \o "    <shapeType>" \o escapeXML(node.shapeType)
                      \o "</shapeType>">>
             ELSE <<>>)
         \o <<spaces \o "  </properties>">>

\* nodeToXML: the text it returns, as the sequence of its lines (each
\* "xml += ...\n" of the code is one line)
RECURSIVE nodeToXML(_, _)
RECURSIVE XMLChildren(_, _)
XMLChildren(children, indent) ==
    IF children = <<>> THEN <<>>
    ELSE nodeToXML(Head(children), indent) \o XMLChildren(Tail(children), indent)

\* a variant that writes the children at the level of their parent's elements
XMLGroup_Inlined(node, indent) ==
    IF HasPaints(node, "children") THEN XMLChildren(node.children, indent + 2) ELSE <<>>

\* the "Children" block of nodeToXML
XMLGroup(node, indent) ==
    IF HasPaints(node, "children")
    THEN <<Spaces(indent) \o "  <group>">>
         \o XMLChildren(node.children, indent + 2)
         \o <<Spaces(indent) \o "  </group>">>
    ELSE <<>>

nodeToXML(node, indent) ==
    LET spaces == Spaces(indent)
    IN  <<spaces \o "<shape>",
          spaces \o "  <type>" \o escapeXML(mapNodeTypeToPPTX(node.type)) \o "</type>",
          spaces \o "  <id>" \o escapeXML(node.id) \o "</id>",
          spaces \o "  <name>" \o escapeXML(node.name) \o "</name>",
          spaces \o "  <geometry>",
          spaces \o "    <position x=\"" \o NumText(node.x) \o "\" y=\"" \o NumText(node.y) \o "\"/>",
          spaces \o "    <size width=\"" \o NumText(node.width)
              \o "\" height=\"" \o NumText(node.height) \o "\"/>",
          spaces \o "    <rotation degrees=\"" \o NumText(node.rotation) \o "\"/>",
          spaces \o "  </geometry>">>
        \o XMLFill(node, spaces)
        \o XMLStroke(node, spaces)
        \o XMLText(node, spaces)
        \o XMLProperties(node, spaces)
        \o XMLGroup(node, indent)
        \o <<spaces \o "</shape>">>

\* toXML: the text it returns, as the sequence of its lines
toXML(nodes, pageInfo, now) ==
    <<"<?xml version=\"1.0\" encoding=\"UTF-8\"?>",
      "<!-- FigJam to PowerPoint Export -->",
      "<presentation xmlns=\"http://schemas.figjam2pptx.com/presentation\">",
      "  <metadata>",
      "    <exportDate>" \o now \o "</exportDate>",
      "    <sourcePage>" \o escapeXML(pageInfo.name) \o "</sourcePage>",
      "    <objectCount>" \o NumText(Len(nodes)) \o "</objectCount>",
      "  </metadata>",
      "  <slide width=\"" \o NumText(pageInfo.width)
          \o "\" height=\"" \o NumText(pageInfo.height) \o "\">">>
    \o XMLChildren(nodes, 2)
    \o <<"  </slide>", "</presentation>">>

(***************************************************************************)
(* The host's paints (Figma plugin API: Paint)                             *)
(***************************************************************************)
Channels == 0 .. ChannelDen

\* a few channel values, for the paints that sit in stacks
ChannelSamples == {0, 20, 39, ChannelDen}

GradientKinds ==
    {"GRADIENT_LINEAR", "GRADIENT_RADIAL", "GRADIENT_ANGULAR", "GRADIENT_DIAMOND"}

\* paint kinds of the host that extractFills has no arm for
OtherPaintKinds == {"VIDEO", "PATTERN"}

\* visible?: boolean and opacity?: number are optional properties of a paint
WithVisible(p) == {p, p @@ [visible |-> TRUE], p @@ [visible |-> FALSE]}

SolidPaint(r, g, b) == [type |-> "SOLID", color |-> [r |-> r, g |-> g, b |-> b]]

ImagePaint(hash) == [type |-> "IMAGE", imageHash |-> hash, scaleMode |-> "FILL"]

GradientPaint(kind, stops) == [type |-> kind, gradientStops |-> stops]

ColorStop(pos, r, g, b, a) ==
    [position |-> pos, color |-> [r |-> r, g |-> g, b |-> b, a |-> a]]

OtherPaint(kind) == [type |-> kind]

\* the paints that make up stacks
StackPaints ==
    UNION {WithVisible(p) : p \in {SolidPaint(ChannelDen, 39, 20), SolidPaint(0, 0, 0)}}
    \cup WithVisible(ImagePaint("hash-1"))
    \cup WithVisible(GradientPaint("GRADIENT_LINEAR",
            <<ColorStop(0, ChannelDen, 0, 0, ChannelDen),
              ColorStop(ChannelDen, 0, 39, 20, 50)>>))
    \cup {GradientPaint("GRADIENT_RADIAL", <<>>),
          SolidPaint(0, 20, ChannelDen) @@ [opacity |-> 50],
          SolidPaint(0, 20, ChannelDen) @@ [opacity |-> 0],
          ImagePaint("hash-2") @@ [opacity |-> 50],
          OtherPaint("VIDEO"),
          OtherPaint("PATTERN") @@ [visible |-> TRUE],
          OtherPaint("PATTERN") @@ [visible |-> FALSE]}

RECURSIVE SeqsUpTo(_, _)
SeqsUpTo(S, n) ==
    IF n = 0 THEN {<<>>}
    ELSE LET shorter == SeqsUpTo(S, n - 1)
         IN  shorter \cup {Append(s, e) : s \in {t \in shorter : Len(t) = n - 1}, e \in S}

\* single paints sweeping the whole channel grid
SweepPaints ==
    {SolidPaint(r, g, b) : r \in Channels, g \in Channels, b \in {0, ChannelDen}}
    \cup {GradientPaint(k, <<ColorStop(p, r, g, b, 50)>>) :
            k \in GradientKinds, p \in {0, ChannelDen},
            r \in Channels, g \in ChannelSamples, b \in {0, 39}}

\* the arguments of extractFills / extractStrokes
PaintInputs ==
    {Mixed} \cup SeqsUpTo(StackPaints, MaxPaints) \cup {<<p>> : p \in SweepPaints}

(***************************************************************************)
(* The host's nodes (Figma plugin API: SceneNode)                          *)
(***************************************************************************)
HandledTypes ==
    {"RECTANGLE", "ELLIPSE", "POLYGON", "SHAPE_WITH_TEXT", "STICKY", "TEXT",
     "CONNECTOR", "GROUP", "FRAME"}

ContainerTypes == {"GROUP", "FRAME"}

\* node types of the host that extractNodeData has no case for
UnsupportedTypes == {"LINE", "STAMP"}

Black == SolidPaint(0, 0, 0)

\* the paints of the nodes' fills
NodePaints ==
    {SolidPaint(ChannelDen, 39, 20),
     SolidPaint(0, 20, ChannelDen) @@ [visible |-> FALSE],
     SolidPaint(0, 20, ChannelDen) @@ [opacity |-> 0],
     GradientPaint("GRADIENT_LINEAR",
        <<ColorStop(0, ChannelDen, 0, 0, ChannelDen), ColorStop(ChannelDen, 0, 39, 20, 50)>>),
     ImagePaint("hash-1"),
     OtherPaint("VIDEO"),
     OtherPaint("PATTERN") @@ [opacity |-> 50]}

\* the paints that lie in stacks of several fills
LayeredPaints ==
    {SolidPaint(ChannelDen, 39, 20),
     SolidPaint(0, 20, ChannelDen) @@ [visible |-> FALSE],
     GradientPaint("GRADIENT_LINEAR",
        <<ColorStop(0, ChannelDen, 0, 0, ChannelDen), ColorStop(ChannelDen, 0, 39, 20, 50)>>),
     OtherPaint("PATTERN") @@ [opacity |-> 50]}

NodeFills ==
    {Mixed} \cup {<<p>> : p \in NodePaints} \cup SeqsUpTo(LayeredPaints, MaxPaints)
    \cup {<<ImagePaint("hash-1"), SolidPaint(ChannelDen, 39, 20)>>}

NodeStrokes ==
    {Mixed, <<>>, <<Black>>,
     <<Black @@ [visible |-> FALSE], SolidPaint(20, 39, 0) @@ [opacity |-> 50], Black>>,
     <<GradientPaint("GRADIENT_RADIAL", <<ColorStop(0, 0, 0, 0, ChannelDen)>>), Black>>,
     <<SolidPaint(20, 39, 0) @@ [opacity |-> 0]>>}

StrokeWeights == {0, 2}

Texts == {"", "Hi"}

\* identity, position and visibility: what every SceneNode has
HostBase(id, name, type, x, visible) ==
    [id |-> id, name |-> name, type |-> type, x |-> x, y |-> 200, visible |-> visible]

\* the size and rotation that most node types have
Dims == [width |-> 300, height |-> 150, rotation |-> 90]

TextSublayer(characters) == [characters |-> characters]

\* a ConnectorEndpoint: a fixed position, a node it is attached to, or both
Endpoints ==
    {[position |-> [x |-> 10, y |-> 0]],
     [endpointNodeId |-> "2:1", magnet |-> "AUTO"],
     [endpointNodeId |-> "2:2", position |-> [x |-> 0, y |-> 30]]}

\* the variant-specific properties of the leaf nodes with base b
Rectangles(b) ==
    {[cornerRadius |-> c, fills |-> f, strokes |-> s, strokeWeight |-> w] @@ b :
        c \in {0, 8}, f \in NodeFills, s \in NodeStrokes, w \in StrokeWeights}

Ellipses(b) ==
    {[fills |-> f, strokes |-> s, strokeWeight |-> w] @@ b :
        f \in NodeFills, s \in NodeStrokes, w \in StrokeWeights}

Polygons(b) ==
    {[pointCount |-> n, fills |-> f, strokes |-> s, strokeWeight |-> w] @@ b :
        n \in {3, 6}, f \in NodeFills, s \in NodeStrokes, w \in StrokeWeights}

ShapesWithText(b) ==
    {[shapeType |-> k, fills |-> f, strokes |-> s, strokeWeight |-> 2,
      text |-> TextSublayer(t)] @@ b :
        k \in {"SQUARE", "DIAMOND"}, f \in NodeFills, s \in NodeStrokes, t \in Texts}

Stickies(b) ==
    {[fills |-> f, text |-> TextSublayer(t)] @@ b : f \in NodeFills, t \in Texts}

TextNodes(b) ==
    {[characters |-> t, fills |-> f] @@ b : f \in NodeFills, t \in Texts}

Connectors(b) ==
    {[strokes |-> s, strokeWeight |-> w, connectorStart |-> from, connectorEnd |-> to] @@ b :
        s \in NodeStrokes, w \in StrokeWeights, from \in Endpoints, to \in Endpoints}

\* a node of an unsupported type has properties of its own, which nothing reads
Unsupported(b) ==
    {[fills |-> <<Black>>, strokes |-> <<Black>>, strokeWeight |-> 2] @@ b}

LeavesOfType(type, b) ==
    CASE type = "RECTANGLE"       -> Rectangles(b)
      [] type = "ELLIPSE"         -> Ellipses(b)
      [] type = "POLYGON"         -> Polygons(b)
      [] type = "SHAPE_WITH_TEXT" -> ShapesWithText(b)
      [] type = "STICKY"          -> Stickies(b)
      [] type = "TEXT"            -> TextNodes(b)
      [] type = "CONNECTOR"       -> Connectors(b)
      [] OTHER                    -> Unsupported(b)

\* the leaf nodes given to extractNodeData on their own
HostLeaves ==
    UNION {LeavesOfType(type, HostBase("1:2", "Box", type, 100, visible) @@ Dims) :
             type \in HandledTypes \ ContainerTypes, visible \in BOOLEAN}
    \cup UNION {LeavesOfType(type, HostBase("1:3", "Other", type, 100, visible) @@ dims) :
             type \in UnsupportedTypes, visible \in BOOLEAN,
             dims \in {Dims, [rotation |-> 90], [width |-> 300, height |-> 150]}}
    \cup {HostBase("1:4", "Bare", type, 100, TRUE) : type \in UnsupportedTypes}

\* the leaf nodes that sit inside containers, each with its own id
ChildRect ==
    [cornerRadius |-> 8, fills |-> <<SolidPaint(ChannelDen, 39, 20)>>,
     strokes |-> <<Black>>, strokeWeight |-> 2]
        @@ HostBase("2:1", "Child rect", "RECTANGLE", 10, TRUE) @@ Dims

ChildText ==
    [characters |-> "Hi", fills |-> Mixed]
        @@ HostBase("2:2", "Child text", "TEXT", 20, TRUE) @@ Dims

ChildStamp == HostBase("2:3", "Child stamp", "STAMP", 30, FALSE)

ChildLeaves == {ChildRect, ChildText, ChildStamp}

Container(type, id, children) ==
    [children |-> children] @@ HostBase(id, "Container", type, 0, TRUE) @@ Dims

\* the containers nested d deep: the children of a container are leaves and
\* containers of the level below that hold at most one child
RECURSIVE Containers(_)
Containers(d) ==
    IF d = 0 THEN {}
    ELSE LET narrow == {c \in Containers(d - 1) : Len(c.children) <= 1 /\ c.type = "FRAME"}
         IN  {Container(type, "3:" \o ToString(d), children) :
                type \in ContainerTypes,
                children \in SeqsUpTo(ChildLeaves \cup narrow, MaxChildren)}

\* the arguments of extractNodeData
HostNodes == HostLeaves \cup UNION {Containers(d) : d \in 1 .. MaxDepth}

\* a node whose extraction throws: the host answers with a solid paint that
\* has no color, and extractFills reads fill.color.r
BrokenEllipse ==
    [fills |-> <<OtherPaint("SOLID")>>, strokes |-> <<>>, strokeWeight |-> 2]
        @@ HostBase("4:9", "Broken", "ELLIPSE", 800, TRUE) @@ Dims

(***************************************************************************)
(* The plugin: the page, the sandbox's handlers and the UI's handlers      *)
(***************************************************************************)
\* the nodes of the open page that the user can select
Canvas ==
    {[cornerRadius |-> 8,
      fills |-> <<SolidPaint(ChannelDen, 39, 20), Black>>,
      strokes |-> <<Black>>, strokeWeight |-> 2]
        @@ HostBase("4:1", "A & B <test> \"quote\"", "RECTANGLE", 100, TRUE) @@ Dims,
     [children |-> <<[children |-> <<ChildStamp, ChildText>>]
                        @@ HostBase("4:3", "Inner", "FRAME", 40, TRUE) @@ Dims,
                     ChildRect>>]
        @@ HostBase("4:2", "Outer", "GROUP", 200, TRUE) @@ Dims,
     BrokenEllipse}

\* figma.currentPage: its name, width and height
CurrentPage == [name |-> "Tom's \"R&D\" <1>", width |-> 1920, height |-> 1080]

\* the values of new Date().toISOString()
Instants == {"2024-05-01T10:00:00.000Z", "2024-05-01T10:00:01.000Z"}

Formats == {"xml", "json"}

NoSelectionMessage ==
    [type |-> "error", message |-> "Please select at least one object to export"]

\* a variant of the loop without try/catch: an exception of extractNodeData
\* leaves processSelection before any message is posted
ExtractSelection_NoCatch(sel) ==
    LET results == [i \in DOMAIN sel |-> extractNodeData(sel[i])]
        failed  == {i \in DOMAIN sel : results[i] = Thrown}
        calls   == IF failed = {} THEN sel
                   ELSE SubSeq(sel, 1, CHOOSE i \in failed : \A j \in failed : i <= j)
    IN  [extracted |-> calls,
         posted    |->
            IF failed = {}
            THEN <<[type     |-> "data-ready",
                    data     |-> KeepExtracted(results),
                    pageInfo |-> [name   |-> CurrentPage.name,
                                  width  |-> CurrentPage.width,
                                  height |-> CurrentPage.height]]>>
            ELSE <<>>]

\* the for loop of processSelection, with its try/catch: the nodes given to
\* extractNodeData (the loop ends at the first exception) and the message
\* posted
ExtractSelection(sel) ==
    LET results == [i \in DOMAIN sel |-> extractNodeData(sel[i])]
        failed  == {i \in DOMAIN sel : results[i] = Thrown}
        calls   == IF failed = {} THEN sel
                   ELSE SubSeq(sel, 1, CHOOSE i \in failed : \A j \in failed : i <= j)
    IN  [extracted |-> calls,
         posted    |->
            IF failed = {}
            THEN <<[type     |-> "data-ready",
                    data     |-> KeepExtracted(results),
                    pageInfo |-> [name   |-> CurrentPage.name,
                                  width  |-> CurrentPage.width,
                                  height |-> CurrentPage.height]]>>
            ELSE <<[type    |-> "error",
                    message |-> "Error processing selection: " \o Thrown.exception]>>]

\* a variant without the return after the error message: the loop runs
\* over the empty selection and 'data-ready' follows the error
processSelection_NoReturn(sel) ==
    IF Len(sel) = 0
    THEN [extracted |-> <<>>,
          posted    |-> <<NoSelectionMessage>> \o ExtractSelection(sel).posted]
    ELSE ExtractSelection(sel)

processSelection(sel) ==
    IF Len(sel) = 0
    THEN [extracted |-> <<>>, posted |-> <<NoSelectionMessage>>]
    ELSE ExtractSelection(sel)

\* updateStatus
Status(type, message) == [type |-> type, message |-> message]

\* the user selects one more node of the canvas
SelectNode ==
    /\ ~pluginClosed
    /\ Len(selection) < MaxSelection
    /\ \E node \in Canvas :
          /\ \A i \in DOMAIN selection : selection[i] # node
          /\ selection' = Append(selection, node)
    /\ UNCHANGED <<sandboxInbox, uiInbox, pluginClosed, sandboxRun, uiVars>>

\* the user deselects everything
ClearSelection ==
    /\ ~pluginClosed
    /\ selection # <<>>
    /\ selection' = <<>>
    /\ UNCHANGED <<sandboxInbox, uiInbox, pluginClosed, sandboxRun, uiVars>>

\* figma.ui.onmessage, for a 'process-selection' message
OnProcessSelection ==
    /\ ~pluginClosed
    /\ sandboxInbox # <<>>
    /\ Head(sandboxInbox).type = "process-selection"
    /\ LET run == processSelection(selection)
       IN  /\ sandboxRun' = [selection |-> selection] @@ run
           /\ uiInbox' = uiInbox \o run.posted
    /\ sandboxInbox' = Tail(sandboxInbox)
    /\ UNCHANGED <<selection, pluginClosed, uiVars>>

\* figma.ui.onmessage, for a 'close' message: figma.closePlugin() ends the
\* plugin and destroys its UI, with the UI's state and the messages in flight
OnClose ==
    /\ ~pluginClosed
    /\ sandboxInbox # <<>>
    /\ Head(sandboxInbox).type = "close"
    /\ pluginClosed' = TRUE
    /\ sandboxInbox' = <<>>
    /\ uiInbox' = <<>>
    /\ exports' = 0
    /\ exportDisabled' = FALSE
    /\ status' = Status("default", "")
    /\ infoShown' = NoData
    /\ selectedFormat' = "json"
    /\ lastExtractedData' = NoData
    /\ receivedFrom' = <<>>
    /\ uiPc' = "idle"
    /\ clipboardContent' = <<>>
    /\ clipboard' = NoData
    /\ UNCHANGED <<selection, sandboxRun>>

\* a variant of the click listener that leaves the button enabled
ExportClick_NotDisabled ==
    /\ ~pluginClosed
    /\ ~exportDisabled
    /\ exports < MaxExports
    /\ exports' = exports + 1
    /\ status' = Status("processing", "Processing selection...")
    /\ sandboxInbox' = Append(sandboxInbox, [type |-> "process-selection"])
    /\ UNCHANGED <<selection, uiInbox, pluginClosed, sandboxRun, exportDisabled, infoShown,
                   selectedFormat, lastExtractedData, receivedFrom, uiPc, clipboardContent,
                   clipboard>>

\* the click listener of exportBtn
ExportClick ==
    /\ ~pluginClosed
    /\ ~exportDisabled
    /\ exports < MaxExports
    /\ exports' = exports + 1
    /\ exportDisabled' = TRUE
    /\ status' = Status("processing", "Processing selection...")
    /\ sandboxInbox' = Append(sandboxInbox, [type |-> "process-selection"])
    /\ UNCHANGED <<selection, uiInbox, pluginClosed, sandboxRun, infoShown, selectedFormat,
                   lastExtractedData, receivedFrom, uiPc, clipboardContent, clipboard>>

\* the click listener of closeBtn
CloseClick ==
    /\ ~pluginClosed
    /\ \A i \in DOMAIN sandboxInbox : sandboxInbox[i].type # "close"
    /\ sandboxInbox' = Append(sandboxInbox, [type |-> "close"])
    /\ UNCHANGED <<selection, uiInbox, pluginClosed, sandboxRun, uiVars>>

\* the user checks the other format
SelectFormat ==
    /\ ~pluginClosed
    /\ selectedFormat' = CHOOSE f \in Formats : f # selectedFormat
    /\ UNCHANGED <<sandboxVars, exports, exportDisabled, status, infoShown,
                   lastExtractedData, receivedFrom, uiPc, clipboardContent, clipboard>>

\* window.onmessage, for an 'error' message: handleError
OnError ==
    /\ ~pluginClosed
    /\ uiInbox # <<>>
    /\ Head(uiInbox).type = "error"
    /\ status' = Status("error", Head(uiInbox).message)
    /\ exportDisabled' = FALSE
    /\ uiInbox' = Tail(uiInbox)
    /\ UNCHANGED <<selection, sandboxInbox, pluginClosed, sandboxRun, exports, infoShown,
                   selectedFormat, lastExtractedData, receivedFrom, uiPc, clipboardContent, clipboard>>

\* what can happen to the formatting of handleDataReady: the text is built,
\* or the statement that reads the checked format input throws
Formatted == "formatted"

FormatOutcomes == {Formatted, "TypeError"}

\* what a rejected navigator.clipboard.writeText rejects with
WriteErrors == {"NotAllowedError"}

\* the sequence without its i-th element
RemoveAt(seq, i) == SubSeq(seq, 1, i - 1) \o SubSeq(seq, i + 1, Len(seq))

\* the pc of the UI: "writing" while a call of handleDataReady awaits
PcOf(pending) == IF pending = <<>> THEN "idle" ELSE "writing"

\* window.onmessage, for a 'data-ready' message: handleDataReady up to its
\* await of navigator.clipboard.writeText(clipboardContent), or to its end
\* (catch, handleError, finally) when the formatting throws
OnDataReady ==
    /\ ~pluginClosed
    /\ uiInbox # <<>>
    /\ Head(uiInbox).type = "data-ready"
    /\ lastExtractedData' = [nodes |-> Head(uiInbox).data, pageInfo |-> Head(uiInbox).pageInfo]
    /\ receivedFrom' = sandboxRun.selection
    /\ \E outcome \in FormatOutcomes :
          IF outcome = Formatted
          THEN /\ clipboardContent' =
                     Append(clipboardContent,
                            [format  |-> selectedFormat,
                             content |-> [nodes    |-> Head(uiInbox).data,
                                          pageInfo |-> Head(uiInbox).pageInfo]])
               /\ uiPc' = "writing"
               /\ UNCHANGED <<status, exportDisabled>>
          ELSE /\ status' = Status("error", "Failed to copy to clipboard: " \o outcome)
               /\ exportDisabled' = FALSE
               /\ UNCHANGED <<clipboardContent, uiPc>>
    /\ uiInbox' = Tail(uiInbox)
    /\ UNCHANGED <<selection, sandboxInbox, pluginClosed, sandboxRun, exports,
                   infoShown, selectedFormat, clipboard>>

\* the types of the nodes of lastExtractedData, counted by showInfo
NodeTypeCounts(nodes) ==
    [t \in {nodes[i].type : i \in DOMAIN nodes} |->
        Cardinality({i \in DOMAIN nodes : nodes[i].type = t})]

\* showInfo(nodeCount, pageInfo): the count and the page are its arguments,
\* the types are counted in the shared lastExtractedData
showInfo(nodeCount, pageInfo) ==
    [total |-> nodeCount,
     types |-> NodeTypeCounts(lastExtractedData.nodes),
     page  |-> pageInfo.name]

\* handleDataReady after one of its writes succeeded: updateStatus, showInfo,
\* finally (data and pageInfo are the arguments of that call)
ClipboardWritten ==
    /\ ~pluginClosed
    /\ \E i \in DOMAIN clipboardContent :
          LET call == clipboardContent[i]
          IN  /\ clipboard' = call
              /\ clipboardContent' = RemoveAt(clipboardContent, i)
              /\ uiPc' = PcOf(RemoveAt(clipboardContent, i))
              /\ status' = Status("success", "Successfully exported "
                              \o ToString(Len(call.content.nodes)) \o " object(s) to clipboard!")
              /\ infoShown' = showInfo(Len(call.content.nodes), call.content.pageInfo)
    /\ exportDisabled' = FALSE
    /\ UNCHANGED <<sandboxVars, exports, selectedFormat, lastExtractedData, receivedFrom>>

\* a variant whose handleDataReady has no catch clause: the rejection is not
\* reported, only finally runs
ClipboardRejected_Uncaught ==
    /\ ~pluginClosed
    /\ \E i \in DOMAIN clipboardContent :
          /\ clipboardContent' = RemoveAt(clipboardContent, i)
          /\ uiPc' = PcOf(RemoveAt(clipboardContent, i))
    /\ exportDisabled' = FALSE
    /\ UNCHANGED <<sandboxVars, exports, status, infoShown, selectedFormat,
                   lastExtractedData, receivedFrom, clipboard>>

\* handleDataReady after one of its writes was rejected: catch, handleError,
\* finally
ClipboardRejected ==
    /\ ~pluginClosed
    /\ \E i \in DOMAIN clipboardContent, error \in WriteErrors :
          /\ clipboardContent' = RemoveAt(clipboardContent, i)
          /\ uiPc' = PcOf(RemoveAt(clipboardContent, i))
          /\ status' = Status("error", "Failed to copy to clipboard: " \o error)
    /\ exportDisabled' = FALSE
    /\ UNCHANGED <<sandboxVars, exports, infoShown, selectedFormat, lastExtractedData,
                   receivedFrom, clipboard>>

InitPlugin ==
    /\ selection = <<>>
    /\ sandboxInbox = <<>>
    /\ uiInbox = <<>>
    /\ pluginClosed = FALSE
    /\ sandboxRun = NoData
    /\ exports = 0
    /\ exportDisabled = FALSE
    /\ status = Status("default", "")
    /\ infoShown = NoData
    /\ selectedFormat = "json"
    /\ lastExtractedData = NoData
    /\ receivedFrom = <<>>
    /\ uiPc = "idle"
    /\ clipboardContent = <<>>
    /\ clipboard = NoData

(***************************************************************************)
(* Harness of the pipeline: processSelection on one selection, then both   *)
(* serializers on the data it posted                                       *)
(***************************************************************************)
\* the nodes of the page in the pipeline harness
PipelineCanvas ==
    Canvas
    \cup {[strokes |-> <<Black>>, strokeWeight |-> 2]
            @@ HostBase("4:4", "Line", "LINE", 300, TRUE) @@ Dims,
          [fills |-> <<GradientPaint("GRADIENT_LINEAR",
                          <<ColorStop(0, ChannelDen, 0, 0, ChannelDen),
                            ColorStop(ChannelDen, 0, 39, 20, 50)>>) @@ [opacity |-> 50]>>,
           text |-> TextSublayer("Say \"hi\" \\ a<b\n]]>")]
            @@ HostBase("4:5", "Note", "STICKY", -40, TRUE) @@ Dims,
          [children |-> <<>>] @@ HostBase("4:6", "Empty", "FRAME", 500, TRUE) @@ Dims,
          [children |-> <<[ChildRect EXCEPT !.id = "2:4", !.x = 50], ChildRect>>]
            @@ HostBase("4:7", "Pair", "FRAME", 600, FALSE) @@ Dims,
          [shapeType |-> "ROUNDED_RECTANGLE", fills |-> <<SolidPaint(0, 20, ChannelDen)>>,
           strokes |-> <<SolidPaint(20, 39, 0) @@ [opacity |-> 50]>>, strokeWeight |-> 2,
           text |-> TextSublayer("Hi")]
            @@ HostBase("4:8", "Tom's <shape>", "SHAPE_WITH_TEXT", 700, TRUE) @@ Dims,
          [characters |-> "a]]><id>9:9</id><![CDATA[b", fills |-> <<>>]
            @@ HostBase("4:10", "Markup", "TEXT", 900, TRUE) @@ Dims}

\* a selection holds no node twice
Selections(nodes, n) ==
    {sel \in SeqsUpTo(nodes, n) : \A i, j \in DOMAIN sel : i # j => sel[i] # sel[j]}

InitPipeline ==
    /\ pipeSelection \in Selections(PipelineCanvas, MaxSelection)
    /\ pipeRun = NoData
    /\ jsonOut = NoData
    /\ xmlOut = <<>>

PipelineIdle ==
    /\ pipeSelection = <<>>
    /\ pipeRun = [idle |-> TRUE]
    /\ jsonOut = NoData
    /\ xmlOut = <<>>

CallProcessSelection ==
    /\ pipeRun = NoData
    /\ pipeRun' = processSelection(pipeSelection)
    /\ UNCHANGED <<pipeSelection, jsonOut, xmlOut>>

\* processSelection posted 'data-ready'
DataPosted == Has(pipeRun, "posted") /\ pipeRun.posted[1].type = "data-ready"

CallToJSON ==
    /\ DataPosted
    /\ jsonOut = NoData
    /\ \E now \in Instants :
          jsonOut' = [output |-> ExportDocument(pipeRun.posted[1].data,
                                                 pipeRun.posted[1].pageInfo, now),
                      text   |-> toJSON(pipeRun.posted[1].data,
                                        pipeRun.posted[1].pageInfo, now)]
    /\ UNCHANGED <<pipeSelection, pipeRun, xmlOut>>

CallToXML ==
    /\ DataPosted
    /\ xmlOut = <<>>
    /\ \E now \in Instants :
          xmlOut' = toXML(pipeRun.posted[1].data, pipeRun.posted[1].pageInfo, now)
    /\ UNCHANGED <<pipeSelection, pipeRun, jsonOut>>

(***************************************************************************)
(* Harness of the Node Extractor: one call on one host node                *)
(***************************************************************************)
InitNode ==
    /\ hostNode \in HostNodes
    /\ nodeData = NoData
    /\ nodePc = "ready"
    /\ shapeOut = NoData
    /\ xmlNodeOut = <<>>

CallExtractNodeData ==
    /\ nodePc = "ready"
    /\ nodeData' = extractNodeData(hostNode)
    /\ nodePc' = "extracted"
    /\ UNCHANGED <<hostNode, shapeOut, xmlNodeOut>>

\* the extracted node goes through both converters (toXML calls nodeToXML
\* with indent 2 for a top-level node)
CallConverters ==
    /\ nodePc = "extracted"
    /\ nodeData \notin {Thrown, Null}
    /\ shapeOut' = nodeToShape(nodeData)
    /\ xmlNodeOut' = nodeToXML(nodeData, 2)
    /\ nodePc' = "converted"
    /\ UNCHANGED <<hostNode, nodeData>>

(***************************************************************************)
(* Harness of the Paint Normalizer: one call on one argument               *)
(***************************************************************************)
InitPaint ==
    /\ paintIn \in PaintInputs
    /\ paintOut = None
    /\ paintPc = "ready"

CallExtractFills ==
    /\ paintPc = "ready"
    /\ paintOut' = extractFills(paintIn)
    /\ paintPc' = "fills"
    /\ UNCHANGED paintIn

CallExtractStrokes ==
    /\ paintPc = "ready"
    /\ paintOut' = extractStrokes(paintIn)
    /\ paintPc' = "strokes"
    /\ UNCHANGED paintIn

(***************************************************************************)
(* Specifications                                                          *)
(***************************************************************************)
vars == <<paintVars, nodeVars, pluginVars, pipeVars>>

\* a harness that is not running holds its variables still
PaintIdle == paintIn = <<>> /\ paintOut = None /\ paintPc = "idle"

NodeIdle ==
    /\ hostNode = NoData
    /\ nodeData = NoData
    /\ nodePc = "idle"
    /\ shapeOut = NoData
    /\ xmlNodeOut = <<>>

NextPaint ==
    \/ CallExtractFills /\ UNCHANGED <<nodeVars, pluginVars, pipeVars>>
    \/ CallExtractStrokes /\ UNCHANGED <<nodeVars, pluginVars, pipeVars>>

InitPaintSpec == InitPaint /\ NodeIdle /\ InitPlugin /\ PipelineIdle

SpecPaint == InitPaintSpec /\ [][NextPaint]_vars

NextNode ==
    \/ CallExtractNodeData /\ UNCHANGED <<paintVars, pluginVars, pipeVars>>
    \/ CallConverters /\ UNCHANGED <<paintVars, pluginVars, pipeVars>>

InitExtractSpec == InitNode /\ PaintIdle /\ InitPlugin /\ PipelineIdle

SpecExtract == InitExtractSpec /\ [][NextNode]_vars

NextPipeline ==
    \/ CallProcessSelection /\ UNCHANGED <<paintVars, nodeVars, pluginVars>>
    \/ CallToJSON /\ UNCHANGED <<paintVars, nodeVars, pluginVars>>
    \/ CallToXML /\ UNCHANGED <<paintVars, nodeVars, pluginVars>>

InitPipelineSpec == InitPipeline /\ PaintIdle /\ NodeIdle /\ InitPlugin

SpecPipeline == InitPipelineSpec /\ [][NextPipeline]_vars

\* the plugin, from the moment its UI is shown
Init == InitPlugin /\ PaintIdle /\ NodeIdle /\ PipelineIdle

Next ==
    \/ SelectNode /\ UNCHANGED <<paintVars, nodeVars, pipeVars>>
    \/ ClearSelection /\ UNCHANGED <<paintVars, nodeVars, pipeVars>>
    \/ ExportClick /\ UNCHANGED <<paintVars, nodeVars, pipeVars>>
    \/ CloseClick /\ UNCHANGED <<paintVars, nodeVars, pipeVars>>
    \/ SelectFormat /\ UNCHANGED <<paintVars, nodeVars, pipeVars>>
    \/ OnProcessSelection /\ UNCHANGED <<paintVars, nodeVars, pipeVars>>
    \/ OnClose /\ UNCHANGED <<paintVars, nodeVars, pipeVars>>
    \/ OnError /\ UNCHANGED <<paintVars, nodeVars, pipeVars>>
    \/ OnDataReady /\ UNCHANGED <<paintVars, nodeVars, pipeVars>>
    \/ ClipboardWritten /\ UNCHANGED <<paintVars, nodeVars, pipeVars>>
    \/ ClipboardRejected /\ UNCHANGED <<paintVars, nodeVars, pipeVars>>

Spec == Init /\ [][Next]_vars

\* the UI's event loop: the browser dispatches every message event that is
\* queued for window.onmessage, and the promise of
\* navigator.clipboard.writeText settles, so that the call of
\* handleDataReady that awaits it resumes
UIFairness ==
    /\ WF_vars(OnError /\ UNCHANGED <<paintVars, nodeVars, pipeVars>>)
    /\ WF_vars(OnDataReady /\ UNCHANGED <<paintVars, nodeVars, pipeVars>>)
    /\ WF_vars((ClipboardWritten \/ ClipboardRejected)
                  /\ UNCHANGED <<paintVars, nodeVars, pipeVars>>)

SpecLive == Spec /\ UIFairness

(***************************************************************************)
(* Properties of the Node Extractor                                        *)
(***************************************************************************)
BaseFields ==
    {"id", "name", "type", "x", "y", "width", "height", "rotation", "visible"}

VariantFields ==
    {"fills", "strokes", "strokeWeight", "text", "cornerRadius", "shapeType",
     "connectorStart", "connectorEnd", "children"}

\* the node types whose extractor reads the fills, and the strokes
FillTypes == {"RECTANGLE", "ELLIPSE", "POLYGON", "SHAPE_WITH_TEXT", "STICKY", "TEXT"}

StrokeTypes == {"RECTANGLE", "ELLIPSE", "POLYGON", "SHAPE_WITH_TEXT", "CONNECTOR"}

NodeExtracted == nodePc \notin {"idle", "ready"}

\* a tree (of host nodes, or of extracted nodes) as the sequence of its
\* nodes, parents before children, children in order
RECURSIVE Preorder(_)
RECURSIVE PreorderAll(_)
Preorder(n) ==
    IF Has(n, "children") THEN <<n>> \o PreorderAll(n.children) ELSE <<n>>
PreorderAll(ns) ==
    IF ns = <<>> THEN <<>> ELSE Preorder(Head(ns)) \o PreorderAll(Tail(ns))

\* the paints of a host array whose visibility flag is true or absent
VisiblePaints(raw) ==
    SelectSeq(raw, LAMBDA p : IF Has(p, "visible") THEN p.visible ELSE TRUE)

\* C3: for a host node whose type tag is not one of the handled variants,
\* extractNodeData does not throw and does not return null: it returns a
\* record with exactly the base fields (no variant field), each copied from
\* the host node, and width, height and rotation 0 where the host node has
\* no such property.
C3_UnsupportedIsBaseOnly ==
    (NodeExtracted /\ hostNode.type \notin HandledTypes) =>
        /\ nodeData # Thrown
        /\ nodeData # Null
        /\ DOMAIN nodeData = BaseFields
        /\ DOMAIN nodeData \cap VariantFields = {}
        /\ \A f \in {"id", "name", "type", "x", "y", "visible"} :
              nodeData[f] = hostNode[f]
        /\ \A f \in {"width", "height", "rotation"} :
              nodeData[f] = IF Has(hostNode, f) THEN hostNode[f] ELSE 0

C3_Witness ==
    /\ NodeExtracted
    /\ hostNode.type = "STAMP"
    /\ ~Has(hostNode, "width")
    /\ Has(hostNode, "rotation")
    /\ Has(hostNode, "fills")
    /\ nodeData.width = 0
    /\ nodeData.rotation = 90

\* C4 (as claimed): every Node produced by extraction, at any depth, has a
\* type that is one of the fixed tags: the nine handled ones, or Other.
C4_TypeIsFixedTag ==
    NodeExtracted =>
        \A i \in DOMAIN Preorder(nodeData) :
            Preorder(nodeData)[i].type \in HandledTypes \cup {"OTHER", "Other"}

\* C4 (amended): every Node produced by extraction, at any depth, has the
\* type tag of its host node, copied verbatim: one of the nine handled tags
\* when the host node is of a handled variant, and the host's own tag (never
\* Other) when it is not.
C4_TypeIsHostTag ==
    NodeExtracted =>
        LET host == Preorder(hostNode)
            data == Preorder(nodeData)
        IN  /\ Len(data) = Len(host)
            /\ \A i \in DOMAIN data :
                  /\ data[i].type = host[i].type
                  /\ data[i].type \in HandledTypes \cup UnsupportedTypes
                  /\ data[i].type \in HandledTypes <=> host[i].type \in HandledTypes

C4_Witness ==
    /\ NodeExtracted
    /\ hostNode.type = "GROUP"
    /\ Len(nodeData.children) = 2
    /\ nodeData.children[1].type = "FRAME"
    /\ Len(nodeData.children[1].children) = 1
    /\ nodeData.children[1].children[1].type = "STAMP"
    /\ nodeData.children[2].type = "RECTANGLE"

\* C5: in every Node produced by extraction, at any depth, the children
\* field is present exactly when the type is GROUP or FRAME (present even
\* when the container is empty).
C5_ChildrenIffContainer ==
    NodeExtracted =>
        /\ nodeData # Thrown
        /\ \A i \in DOMAIN Preorder(nodeData) :
              Has(Preorder(nodeData)[i], "children")
                  <=> Preorder(nodeData)[i].type \in ContainerTypes

C5_Witness ==
    /\ NodeExtracted
    /\ hostNode.type = "FRAME"
    /\ Len(hostNode.children) = 2
    /\ hostNode.children[1].type = "FRAME"
    /\ hostNode.children[1].children = <<>>
    /\ nodeData.children[1].children = <<>>
    /\ ~Has(nodeData.children[2], "children")

\* C6: when the fills (the strokes) of a host node are figma.mixed, the
\* node is still extracted (no exception, no null) and its fills (strokes)
\* are the empty sequence.
C6_MixedGivesEmpty ==
    NodeExtracted =>
        /\ (hostNode.type \in FillTypes /\ hostNode.fills = Mixed) =>
              /\ nodeData \notin {Thrown, Null}
              /\ Has(nodeData, "fills")
              /\ nodeData.fills = <<>>
        /\ (hostNode.type \in StrokeTypes /\ hostNode.strokes = Mixed) =>
              /\ nodeData \notin {Thrown, Null}
              /\ Has(nodeData, "strokes")
              /\ nodeData.strokes = <<>>

C6_Witness ==
    /\ NodeExtracted
    /\ hostNode.type = "RECTANGLE"
    /\ hostNode.fills = Mixed
    /\ hostNode.strokes = Mixed
    /\ nodeData.fills = <<>>
    /\ nodeData.strokes = <<>>
    /\ nodeData.id = hostNode.id

KnownPaintKinds == {"SOLID", "IMAGE"} \cup GradientKinds

\* C9: every visible paint of a kind other than SOLID, IMAGE and the four
\* gradient kinds gives the placeholder {type: 'unknown'} at its place in the
\* node's fills; nothing is thrown, the other visible paints of the list
\* give their own entries, and the node is extracted.
C9_UnknownPaintPlaceholder ==
    (NodeExtracted /\ hostNode.type \in FillTypes /\ hostNode.fills # Mixed) =>
        LET shown == VisiblePaints(hostNode.fills)
        IN  /\ nodeData \notin {Thrown, Null}
            /\ Len(nodeData.fills) = Len(shown)
            /\ \A i \in DOMAIN shown :
                  IF shown[i].type \in KnownPaintKinds
                  THEN nodeData.fills[i].type \in {"solid", "image", "gradient"}
                  ELSE nodeData.fills[i] = [type |-> "unknown"]

C9_Witness ==
    /\ NodeExtracted
    /\ hostNode.type = "STICKY"
    /\ Len(hostNode.fills) = 2
    /\ hostNode.fills[1].type = "PATTERN"
    /\ hostNode.fills[2].type = "SOLID"
    /\ Len(nodeData.fills) = 2
    /\ nodeData.fills[1] = [type |-> "unknown"]
    /\ nodeData.fills[2].type = "solid"
    /\ nodeData.text = hostNode.text.characters

(***************************************************************************)
(* Properties of the Shape Mapper                                          *)
(***************************************************************************)
NodeConverted == nodePc = "converted"

\* the <type> line that nodeToXML writes for a top-level node
TypeLine(pptxType) == "    " \o "  <type>" \o pptxType \o "</type>"

\* the table as C10 states it: nine tags, and "shape" for every other one
ClaimedPPTXType(nodeType) ==
    CASE nodeType = "RECTANGLE"       -> "rectangle"
      [] nodeType = "ELLIPSE"         -> "ellipse"
      [] nodeType = "POLYGON"         -> "polygon"
      [] nodeType = "SHAPE_WITH_TEXT" -> "shape"
      [] nodeType = "STICKY"          -> "textbox"
      [] nodeType = "TEXT"            -> "text"
      [] nodeType = "CONNECTOR"       -> "line"
      [] nodeType = "GROUP"           -> "group"
      [] nodeType = "FRAME"           -> "frame"
      [] OTHER                        -> "shape"

\* C10 (as claimed): the shape record and the XML element of a node carry
\* the type that the nine-entry table gives its tag, and "shape" for every
\* tag that is not one of the nine.
C10_TypeMappedAsClaimed ==
    NodeConverted =>
        /\ shapeOut.type = ClaimedPPTXType(hostNode.type)
        /\ xmlNodeOut[2] = TypeLine(ClaimedPPTXType(hostNode.type))

\* C10 (amended): the same, with a tenth entry in the table, LINE -> "line":
\* every tag that is none of the ten maps to "shape".
C10_TypeMapped ==
    NodeConverted =>
        LET expected == IF hostNode.type = "LINE" THEN "line"
                        ELSE ClaimedPPTXType(hostNode.type)
        IN  /\ shapeOut.type = expected
            /\ xmlNodeOut[2] = TypeLine(expected)

C10_Witness ==
    /\ NodeConverted
    /\ hostNode.type = "STAMP"
    /\ shapeOut.type = "shape"
    /\ xmlNodeOut[2] = "      <type>shape</type>"

(***************************************************************************)
(* Properties of the Selection Walker and of the pipeline                  *)
(***************************************************************************)
\* C1: a processSelection that reads an empty selection posts one message,
\* of type 'error', and no 'data-ready'; it gives no node to
\* extractNodeData; the UI receives that one message.
C1_EmptySelectionIsAnError ==
    (sandboxRun # NoData /\ sandboxRun.selection = <<>>) =>
        /\ Len(sandboxRun.posted) = 1
        /\ sandboxRun.posted[1].type = "error"
        /\ \A i \in DOMAIN sandboxRun.posted : sandboxRun.posted[i].type # "data-ready"
        /\ sandboxRun.extracted = <<>>
        /\ uiInbox \in {<<>>, sandboxRun.posted}

C1_Witness ==
    /\ sandboxRun # NoData
    /\ sandboxRun.selection = <<>>
    /\ exports = 2
    /\ Len(uiInbox) = 1
    /\ uiInbox[1].type = "error"
    /\ lastExtractedData # NoData

\* a tree of nodes as the tree of their ids
RECURSIVE IdTree(_)
IdTree(n) ==
    [id   |-> n.id,
     kids |-> IF Has(n, "children")
              THEN [i \in DOMAIN n.children |-> IdTree(n.children[i])]
              ELSE <<>>]

\* the <id> lines that the shape elements of a forest give, parents before
\* children, children in order: a shape nested d deep is indented 4d spaces
RECURSIVE IdOutline(_, _)
RECURSIVE IdOutlineAll(_, _)
IdOutline(n, depth) ==
    <<Spaces(2 * depth + 1) \o "<id>" \o n.id \o "</id>">>
        \o (IF Has(n, "children") THEN IdOutlineAll(n.children, depth + 1) ELSE <<>>)
IdOutlineAll(ns, depth) ==
    IF ns = <<>> THEN <<>> ELSE IdOutline(Head(ns), depth) \o IdOutlineAll(Tail(ns), depth)

RECURSIVE TrimLeft(_)
TrimLeft(str) ==
    IF Len(str) > 0 /\ SubSeq(str, 1, 1) = " " THEN TrimLeft(SubSeq(str, 2, Len(str))) ELSE str

\* the <id> lines of an XML text
IdLines(xml) == SelectSeq(xml, LAMBDA line : StartsWith(TrimLeft(line), "<id>"))

\* the extraction of some node of the selection throws
ExtractionThrows(sel) == \E i \in DOMAIN sel : extractNodeData(sel[i]) = Thrown

\* C2: for a non-empty selection whose extraction completes (no node of it
\* throws), the i-th extracted Node comes from the
\* i-th selected node (same length), with its descendants in the host's
\* child order at every depth; the i-th shape of toJSON comes from the i-th
\* Node; the shape elements of toXML are those of the selected trees, top
\* level in selection order and children in the host's child order.
C2_OrderPreserved ==
    (pipeRun # NoData /\ pipeSelection # <<>> /\ ~ExtractionThrows(pipeSelection)) =>
        /\ Len(pipeRun.posted) = 1
        /\ pipeRun.posted[1].type = "data-ready"
        /\ LET data == pipeRun.posted[1].data
           IN  /\ Len(data) = Len(pipeSelection)
               /\ \A i \in DOMAIN data : IdTree(data[i]) = IdTree(pipeSelection[i])
        /\ jsonOut # NoData =>
              /\ Len(jsonOut.output.shapes) = Len(pipeSelection)
              /\ \A i \in DOMAIN jsonOut.output.shapes :
                    /\ jsonOut.output.shapes[i].position.x = pipeSelection[i].x
                    /\ jsonOut.output.shapes[i].type = mapNodeTypeToPPTX(pipeSelection[i].type)
        /\ xmlOut # <<>> => IdLines(xmlOut) = IdOutlineAll(pipeSelection, 1)

C2_Witness ==
    /\ pipeRun # NoData
    /\ Len(pipeSelection) = 2
    /\ pipeSelection[1].id = "4:2"
    /\ pipeSelection[2].id = "4:1"
    /\ jsonOut # NoData
    /\ jsonOut.output.shapes[1].type = "group"
    /\ jsonOut.output.shapes[2].type = "rectangle"
    /\ IdLines(xmlOut) =
          <<"      <id>4:2</id>", "          <id>4:3</id>", "              <id>2:3</id>",
            "              <id>2:2</id>", "          <id>2:1</id>", "      <id>4:1</id>">>

(***************************************************************************)
(* Properties of the Paint Normalizer                                      *)
(***************************************************************************)
PaintsExtracted == paintPc \in {"fills", "strokes"}

\* c * 255 rounded to the nearest integer, halves away from zero, for the
\* channel c = n / ChannelDen >= 0: the integer k with -1/2 < k - c*255 <= 1/2
IsRoundHalfAway255(n, k) ==
    /\ 2 * ChannelDen * k - 2 * 255 * n > -ChannelDen
    /\ 2 * ChannelDen * k - 2 * 255 * n <= ChannelDen

\* what an entry of the result carries of the host paint it comes from
DerivedFrom(out, raw) ==
    CASE raw.type = "SOLID" ->
            /\ out.type = "solid"
            /\ \A ch \in {"r", "g", "b"} : IsRoundHalfAway255(raw.color[ch], out.color[ch])
      [] raw.type = "IMAGE" ->
            out.type = "image" /\ out.imageHash = raw.imageHash
      [] raw.type \in GradientKinds ->
            /\ out.type = "gradient"
            /\ out.gradientType = raw.type
            /\ Len(out.gradientStops) = Len(raw.gradientStops)
      [] OTHER -> out.type = "unknown"

\* C7: the result of extractFills / extractStrokes holds one entry for each
\* paint whose visibility flag is true or absent, in the order of the host
\* paint stack, and no entry for a paint whose flag is false.
C7_VisiblePaintsInOrder ==
    (PaintsExtracted /\ paintIn # Mixed) =>
        LET shown == VisiblePaints(paintIn)
        IN  /\ paintOut # Throw
            /\ Len(paintOut) = Len(shown)
            /\ \A i \in DOMAIN shown : DerivedFrom(paintOut[i], shown[i])
            /\ Len(paintOut) =
                  Cardinality({i \in DOMAIN paintIn :
                      ~(Has(paintIn[i], "visible") /\ paintIn[i].visible = FALSE)})

C7_Witness ==
    /\ paintPc = "strokes"
    /\ Len(paintIn) = 2
    /\ Has(paintIn[1], "visible") /\ paintIn[1].visible = FALSE
    /\ paintIn[1].type = "SOLID"
    /\ ~Has(paintIn[2], "visible")
    /\ paintIn[2].type = "IMAGE"
    /\ Len(paintOut) = 1
    /\ paintOut[1].type = "image"

\* the r, g, b channels of the solid paints and gradient stops of a host
\* array, as pairs <<host channel, normalized channel>>, given its result
ChannelPairs(raw, out) ==
    UNION {
        IF raw[i].type = "SOLID"
        THEN {<<raw[i].color[ch], out[i].color[ch]>> : ch \in {"r", "g", "b"}}
        ELSE IF raw[i].type \in GradientKinds
        THEN UNION {{<<raw[i].gradientStops[j].color[ch],
                       out[i].gradientStops[j].color[ch]>> : ch \in {"r", "g", "b"}} :
                    j \in DOMAIN raw[i].gradientStops}
        ELSE {} : i \in DOMAIN raw}

\* the general part of C8: every normalized channel of a solid paint or a
\* gradient stop is round(c * 255) with halves away from zero, an integer of
\* 0..255, and a larger host channel never gives a smaller normalized one.
ChannelsRounded ==
    (PaintsExtracted /\ paintIn # Mixed) =>
        LET pairs == ChannelPairs(VisiblePaints(paintIn), paintOut)
        IN  /\ \A p \in pairs :
                  /\ p[2] \in 0 .. 255
                  /\ IsRoundHalfAway255(p[1], p[2])
            /\ \A p, q \in pairs : p[1] <= q[1] => p[2] <= q[2]

\* the example of C8 is on the grid when 0.39 and 0.2 are: the paint with
\* r = 1, g = 0.39, b = 0.2
ExamplePaint == SolidPaint(ChannelDen, (39 * ChannelDen) \div 100, (20 * ChannelDen) \div 100)

ExampleOnGrid == ChannelDen % 100 = 0

ExampleExtracted == ExampleOnGrid /\ PaintsExtracted /\ paintIn = <<ExamplePaint>>

\* C8 (as claimed): the general part, with the examples 1 -> 255,
\* 0.39 -> 100 and 0.2 -> 51.
C8_ChannelsRoundedAsClaimed ==
    /\ ChannelsRounded
    /\ ExampleExtracted => paintOut[1].color = [r |-> 255, g |-> 100, b |-> 51]

\* C8 (amended): the general part, with the examples 1 -> 255, 0.39 -> 99
\* (99.45 rounds down) and 0.2 -> 51.
C8_ChannelsRounded ==
    /\ ChannelsRounded
    /\ ExampleExtracted => paintOut[1].color = [r |-> 255, g |-> 99, b |-> 51]

C8_Witness ==
    /\ paintPc = "fills"
    /\ paintIn = <<ExamplePaint>>
    /\ paintOut[1].color.g = 99
    /\ ExampleOnGrid

(***************************************************************************)
(* Properties of the shape records of nodeToShape                          *)
(***************************************************************************)
\* the node with only the first paint of the list f
KeepFirst(node, f) ==
    IF HasPaints(node, f) THEN [node EXCEPT ![f] = <<node[f][1]>>] ELSE node

\* what the record may copy from one paint
PaintOpacity(paint) == IF Has(paint, "opacity") THEN [opacity |-> paint.opacity] ELSE <<>>

\* C11: the fill of the shape record, when there is one, is made of the first
\* fill of the node only (its type, its color or gradient stops, its
\* opacity), and the stroke of the first stroke only (its color and opacity,
\* with the node's strokeWeight); the record is the one the node gives
\* with every later fill and stroke taken away.
C11_FirstPaintOnly ==
    NodeConverted =>
        /\ Has(shapeOut, "fill") =>
              /\ HasPaints(nodeData, "fills")
              /\ LET first == nodeData.fills[1]
                 IN  /\ first.type \in {"solid", "gradient"}
                     /\ shapeOut.fill =
                           (IF first.type = "solid"
                            THEN [type |-> "solid", color |-> first.color]
                            ELSE [type |-> "gradient", gradientStops |-> first.gradientStops])
                           @@ PaintOpacity(first)
        /\ Has(shapeOut, "stroke") =>
              /\ HasPaints(nodeData, "strokes")
              /\ LET first == nodeData.strokes[1]
                 IN  /\ first.type = "solid"
                     /\ shapeOut.stroke = [color |-> first.color, width |-> nodeData.strokeWeight]
                                             @@ PaintOpacity(first)
        /\ shapeOut = nodeToShape(KeepFirst(KeepFirst(nodeData, "fills"), "strokes"))

C11_Witness ==
    /\ NodeConverted
    /\ hostNode.type = "RECTANGLE"
    /\ Len(nodeData.fills) = 2
    /\ nodeData.fills[1].type = "gradient"
    /\ nodeData.fills[2].type = "solid"
    /\ Has(shapeOut, "fill")
    /\ shapeOut.fill.type = "gradient"
    /\ Len(nodeData.strokes) = 2
    /\ nodeData.strokes[1].opacity = 50
    /\ nodeData.strokes[2].opacity = ChannelDen
    /\ Has(shapeOut, "stroke")
    /\ shapeOut.stroke.opacity = 50

(***************************************************************************)
(* Properties of the JSON Serializer                                       *)
(***************************************************************************)
\* Reading a JSON text back (JSON.parse), from its lines.  A number is read
\* as the integer ChannelDen times its value, an object as a record, an
\* array as a sequence.
DigitValue(c) ==
    CASE c = "0" -> 0 [] c = "1" -> 1 [] c = "2" -> 2 [] c = "3" -> 3 [] c = "4" -> 4
      [] c = "5" -> 5 [] c = "6" -> 6 [] c = "7" -> 7 [] c = "8" -> 8 [] c = "9" -> 9

RECURSIVE ParseDigits(_, _)
ParseDigits(str, acc) ==
    IF Len(str) = 0 THEN acc
    ELSE ParseDigits(SubSeq(str, 2, Len(str)), 10 * acc + DigitValue(SubSeq(str, 1, 1)))

RECURSIVE Power10(_)
Power10(k) == IF k = 0 THEN 1 ELSE 10 * Power10(k - 1)

\* the place of the first c in str, 0 when there is none
RECURSIVE IndexOf(_, _, _)
IndexOf(str, c, from) ==
    IF from > Len(str) THEN 0
    ELSE IF SubSeq(str, from, from) = c THEN from
    ELSE IndexOf(str, c, from + 1)

JSONParseNumber(text) ==
    IF SubSeq(text, 1, 1) = "-" THEN
        LET digits == SubSeq(text, 2, Len(text))
        IN  0 - ParseDigits(digits, 0) * ChannelDen
    ELSE LET dot   == IndexOf(text, ".", 1)
             slash == IndexOf(text, "/", 1)
         IN  IF dot > 0 THEN
                 LET whole == ParseDigits(SubSeq(text, 1, dot - 1), 0)
                     frac  == SubSeq(text, dot + 1, Len(text))
                 IN  whole * ChannelDen
                        + (ParseDigits(frac, 0) * ChannelDen) \div Power10(Len(frac))
             ELSE IF slash > 0 THEN
                 (ParseDigits(SubSeq(text, 1, slash - 1), 0) * ChannelDen)
                    \div ParseDigits(SubSeq(text, slash + 1, Len(text)), 0)
             ELSE ParseDigits(text, 0) * ChannelDen

\* the characters between the quotes of a JSON string, escapes undone
RECURSIVE JSONUnescape(_)
JSONUnescape(str) ==
    IF Len(str) = 0 THEN ""
    ELSE LET c == SubSeq(str, 1, 1)
         IN  IF c = "\\" /\ Len(str) >= 2
             THEN LET e == SubSeq(str, 2, 2)
                  IN  (CASE e = "n" -> "\n" [] e = "t" -> "\t" [] OTHER -> e)
                         \o JSONUnescape(SubSeq(str, 3, Len(str)))
             ELSE c \o JSONUnescape(SubSeq(str, 2, Len(str)))

JSONUnquote(text) == JSONUnescape(SubSeq(text, 2, Len(text) - 1))

StripComma(text) ==
    IF Len(text) > 0 /\ SubSeq(text, Len(text), Len(text)) = ","
    THEN SubSeq(text, 1, Len(text) - 1) ELSE text

\* the value that starts with the text head on line i: the value and the
\* line after it
RECURSIVE JSONParseValue(_, _, _)
RECURSIVE JSONParseMembers(_, _, _)
RECURSIVE JSONParseElements(_, _, _)
JSONParseValue(text, i, head) ==
    LET core == StripComma(head)
    IN  CASE core \in {"{}", "[]"} -> [value |-> <<>>, next |-> i + 1]
          [] core = "{"            -> JSONParseMembers(text, i + 1, <<>>)
          [] core = "["            -> JSONParseElements(text, i + 1, <<>>)
          [] SubSeq(core, 1, 1) = "\"" /\ core # "{" /\ core # "["
                                   -> [value |-> JSONUnquote(core), next |-> i + 1]
          [] OTHER                 -> [value |-> JSONParseNumber(core), next |-> i + 1]

JSONParseMembers(text, i, members) ==
    LET line == TrimLeft(text[i])
    IN  IF StripComma(line) = "}" THEN [value |-> members, next |-> i + 1]
        ELSE LET close == IndexOf(line, "\"", 2)
                 key   == SubSeq(line, 2, close - 1)
                 read  == JSONParseValue(text, i, SubSeq(line, close + 3, Len(line)))
             IN  JSONParseMembers(text, read.next, members @@ (key :> read.value))

JSONParseElements(text, i, elements) ==
    LET line == TrimLeft(text[i])
    IN  IF StripComma(line) = "]" THEN [value |-> elements, next |-> i + 1]
        ELSE LET read == JSONParseValue(text, i, line)
             IN  JSONParseElements(text, read.next, Append(elements, read.value))

JSONParse(text) == JSONParseValue(text, 1, text[1]).value

\* the values of a document, its numbers as JSONParse reads them: ChannelDen
\* times an integer, and a fraction n / ChannelDen as n
Times(n) == n * ChannelDen

ColorValue(color) ==
    [r |-> Times(color.r), g |-> Times(color.g), b |-> Times(color.b)]
        @@ (IF Has(color, "a") THEN [a |-> color.a] ELSE <<>>)

FillValue(fill) ==
    [type |-> fill.type]
        @@ (IF Has(fill, "color") THEN [color |-> ColorValue(fill.color)] ELSE <<>>)
        @@ (IF Has(fill, "gradientStops")
            THEN [gradientStops |->
                    [i \in DOMAIN fill.gradientStops |->
                        [position |-> fill.gradientStops[i].position,
                         color    |-> ColorValue(fill.gradientStops[i].color)]]]
            ELSE <<>>)
        @@ (IF Has(fill, "opacity") THEN [opacity |-> fill.opacity] ELSE <<>>)

StrokeValue(stroke) ==
    [color |-> ColorValue(stroke.color), width |-> Times(stroke.width)]
        @@ (IF Has(stroke, "opacity") THEN [opacity |-> stroke.opacity] ELSE <<>>)

PropertiesValue(properties) ==
    (IF Has(properties, "cornerRadius")
     THEN [cornerRadius |-> Times(properties.cornerRadius)] ELSE <<>>)
        @@ (IF Has(properties, "shapeType") THEN [shapeType |-> properties.shapeType] ELSE <<>>)

ShapeValue(shape) ==
    [type     |-> shape.type,
     position |-> [x |-> Times(shape.position.x), y |-> Times(shape.position.y)],
     size     |-> [width |-> Times(shape.size.width), height |-> Times(shape.size.height)],
     rotation |-> Times(shape.rotation)]
        @@ (IF Has(shape, "fill") THEN [fill |-> FillValue(shape.fill)] ELSE <<>>)
        @@ (IF Has(shape, "stroke") THEN [stroke |-> StrokeValue(shape.stroke)] ELSE <<>>)
        @@ (IF Has(shape, "text") THEN [text |-> shape.text] ELSE <<>>)
        @@ (IF Has(shape, "properties")
            THEN [properties |-> PropertiesValue(shape.properties)] ELSE <<>>)

\* the document without its exportDate
DocumentValue(output) ==
    [format  |-> output.format,
     version |-> output.version,
     page    |-> [name   |-> output.page.name,
                  width  |-> Times(output.page.width),
                  height |-> Times(output.page.height)],
     shapes  |-> [i \in DOMAIN output.shapes |-> ShapeValue(output.shapes[i])]]

Fields(value, names) == [f \in names |-> value[f]]

\* C12: reading the text of toJSON back gives the document that was
\* written: the same fields, exportDate set aside, with the same format,
\* version and page, and the same shape records in the same order, equal in
\* every field.
C12_JSONRoundTrip ==
    jsonOut # NoData =>
        LET parsed == JSONParse(jsonOut.text)
        IN  /\ DOMAIN parsed = DOMAIN jsonOut.output
            /\ Fields(parsed, DOMAIN parsed \ {"exportDate"}) = DocumentValue(jsonOut.output)

C12_Witness ==
    /\ jsonOut # NoData
    /\ Len(pipeSelection) = 2
    /\ pipeSelection[1].id = "4:5"
    /\ pipeSelection[2].id = "4:1"
    /\ Len(jsonOut.output.shapes) = 2
    /\ jsonOut.output.page.name = "Tom's \"R&D\" <1>"
    /\ jsonOut.output.shapes[1].text = "Say \"hi\" \\ a<b\n]]>"
    /\ jsonOut.output.shapes[1].position.x = -40
    /\ jsonOut.output.shapes[1].fill.gradientStops[2].color.a = 50
    /\ jsonOut.output.shapes[2].properties = [cornerRadius |-> 8]
    /\ JSONParse(jsonOut.text).shapes[1].text = "Say \"hi\" \\ a<b\n]]>"

(***************************************************************************)
(* Properties of the XML Serializer                                        *)
(***************************************************************************)
\* a string with each of its characters written once: the five markup
\* characters as their entities, every other character as itself
RECURSIVE Escaped(_)
Escaped(str) ==
    IF Len(str) = 0 THEN ""
    ELSE LET c == SubSeq(str, 1, 1)
         IN  (CASE c = "&"  -> "&amp;"
                [] c = "<"  -> "&lt;"
                [] c = ">"  -> "&gt;"
                [] c = "\"" -> "&quot;"
                [] c = "'"  -> "&apos;"
                [] OTHER    -> c) \o Escaped(SubSeq(str, 2, Len(str)))

\* the lines of an XML text that open with the given markup, indentation off
LinesOpening(xml, open) ==
    LET found == SelectSeq(xml, LAMBDA line : StartsWith(TrimLeft(line), open))
    IN  [i \in DOMAIN found |-> TrimLeft(found[i])]

\* toXML was called on the data that processSelection posted
XMLWritten == xmlOut # <<>>

PostedNodes == PreorderAll(pipeRun.posted[1].data)

\* C13: the page name, and the id, the name, the mapped type, the shapeType
\* and the gradient tag of every node reach the XML text with each & < > " '
\* written as its entity, once: no entity that escaping produced is escaped
\* again.
C13_StringsEscaped ==
    XMLWritten =>
        LET nodes     == PostedNodes
            shaped    == SelectSeq(nodes, LAMBDA n : Has(n, "shapeType") /\ n.shapeType # "")
            gradients == SelectSeq(nodes, LAMBDA n :
                            /\ Has(n, "fills")
                            /\ n.fills # <<>>
                            /\ n.fills[1].type = "gradient")
        IN  /\ LinesOpening(xmlOut, "<sourcePage>")
                  = <<"<sourcePage>" \o Escaped(pipeRun.posted[1].pageInfo.name) \o "</sourcePage>">>
            /\ LinesOpening(xmlOut, "<id>")
                  = [i \in DOMAIN nodes |-> "<id>" \o Escaped(nodes[i].id) \o "</id>"]
            /\ LinesOpening(xmlOut, "<name>")
                  = [i \in DOMAIN nodes |-> "<name>" \o Escaped(nodes[i].name) \o "</name>"]
            /\ LinesOpening(xmlOut, "<type>")
                  = [i \in DOMAIN nodes |->
                        "<type>" \o Escaped(mapNodeTypeToPPTX(nodes[i].type)) \o "</type>"]
            /\ LinesOpening(xmlOut, "<shapeType>")
                  = [i \in DOMAIN shaped |->
                        "<shapeType>" \o Escaped(shaped[i].shapeType) \o "</shapeType>"]
            /\ LinesOpening(xmlOut, "<gradient ")
                  = [i \in DOMAIN gradients |->
                        "<gradient type=\"" \o Escaped(gradients[i].fills[1].gradientType) \o "\">"]

C13_Witness ==
    /\ XMLWritten
    /\ Len(pipeSelection) = 2
    /\ pipeSelection[1].name = "A & B <test> \"quote\""
    /\ pipeSelection[2].name = "Tom's <shape>"
    /\ LinesOpening(xmlOut, "<name>")
          = <<"<name>A &amp; B &lt;test&gt; &quot;quote&quot;</name>",
              "<name>Tom&apos;s &lt;shape&gt;</name>">>
    /\ LinesOpening(xmlOut, "<sourcePage>")
          = <<"<sourcePage>Tom&apos;s &quot;R&amp;D&quot; &lt;1&gt;</sourcePage>">>
    /\ LinesOpening(xmlOut, "<shapeType>") = <<"<shapeType>ROUNDED_RECTANGLE</shapeType>">>

\* the lines of an XML text that make its structure: the slide, the shape
\* and group tags, and the type of each shape
StructureLines(xml) ==
    LET trimmed == [i \in DOMAIN xml |-> TrimLeft(xml[i])]
    IN  SelectSeq(trimmed, LAMBDA line :
            \/ line \in {"<shape>", "</shape>", "<group>", "</group>", "</slide>"}
            \/ StartsWith(line, "<slide ")
            \/ StartsWith(line, "<type>"))

\* Reading the shape elements back from the structure lines: a shape
\* element is its type line and its content, a sequence of group wrappers
\* and of shape elements that lie directly in it
RECURSIVE ReadShapes(_, _, _)
RECURSIVE ReadContent(_, _, _)
ReadShapes(ls, i, shapes) ==
    IF i + 1 <= Len(ls) /\ ls[i] = "<shape>" /\ StartsWith(ls[i + 1], "<type>")
    THEN LET read == ReadContent(ls, i + 2, <<>>)
         IN  ReadShapes(ls, read.next,
                        Append(shapes, [type |-> ls[i + 1], content |-> read.value]))
    ELSE [value |-> shapes, next |-> i]

ReadContent(ls, i, content) ==
    IF i > Len(ls) THEN [value |-> Append(content, [unclosed |-> TRUE]), next |-> i]
    ELSE IF ls[i] = "</shape>" THEN [value |-> content, next |-> i + 1]
    ELSE IF ls[i] = "<group>"
    THEN LET read == ReadShapes(ls, i + 1, <<>>)
         IN  IF read.next <= Len(ls) /\ ls[read.next] = "</group>"
             THEN ReadContent(ls, read.next + 1, Append(content, [group |-> read.value]))
             ELSE [value |-> Append(content, [unclosed |-> TRUE]), next |-> Len(ls) + 1]
    ELSE IF ls[i] = "<shape>"
    THEN LET read == ReadShapes(ls, i, <<>>)
         IN  ReadContent(ls, read.next, Append(content, [inlined |-> read.value]))
    ELSE [value |-> Append(content, [unclosed |-> TRUE]), next |-> Len(ls) + 1]

\* the shape element that a Node of the tree is to give
RECURSIVE ShapeElement(_)
ShapeElement(node) ==
    [type    |-> "<type>" \o mapNodeTypeToPPTX(node.type) \o "</type>",
     content |-> IF Has(node, "children") /\ node.children # <<>>
                 THEN <<[group |-> [i \in DOMAIN node.children |->
                                       ShapeElement(node.children[i])]]>>
                 ELSE <<>>]

\* C14: the slide element of the XML text holds one shape element for each
\* top-level Node, in order, and nothing else; their number is the value of
\* objectCount; the shape element of a Group or Frame with children holds
\* one group wrapper, in which its children's shape elements lie, in order
\* and so on at every depth; so there is one shape element for each Node of
\* the tree.
C14_OneShapePerNode ==
    XMLWritten =>
        LET data == pipeRun.posted[1].data
            ls   == StructureLines(xmlOut)
            read == ReadShapes(ls, 2, <<>>)
        IN  /\ StartsWith(ls[1], "<slide ")
            /\ read.value = [i \in DOMAIN data |-> ShapeElement(data[i])]
            /\ read.next = Len(ls)
            /\ ls[read.next] = "</slide>"
            /\ LinesOpening(xmlOut, "<objectCount>")
                  = <<"<objectCount>" \o ToString(Len(read.value)) \o "</objectCount>">>
            /\ Len(LinesOpening(xmlOut, "<shape>")) = Len(PostedNodes)

C14_Witness ==
    /\ XMLWritten
    /\ Len(pipeSelection) = 1
    /\ pipeSelection[1].id = "4:7"
    /\ ReadShapes(StructureLines(xmlOut), 2, <<>>).value
          = <<[type    |-> "<type>frame</type>",
               content |-> <<[group |-> <<[type |-> "<type>rectangle</type>", content |-> <<>>],
                                          [type |-> "<type>rectangle</type>", content |-> <<>>]>>]>>]>>
    /\ LinesOpening(xmlOut, "<objectCount>") = <<"<objectCount>1</objectCount>">>

(***************************************************************************)
(* Properties of the stroke and fill elements of nodeToXML                 *)
(***************************************************************************)
\* the Nodes of the extracted tree that have strokes, parents first
Stroked(node) ==
    SelectSeq(Preorder(node), LAMBDA n : Has(n, "strokes") /\ n.strokes # <<>>)

\* C15 (as claimed): the XML of a node has one stroke element for each Node
\* with a non-empty strokes list and none for the others; its weight is the
\* Node's strokeWeight, and 1 only when the Node has no strokeWeight; the
\* color element in it, if any, is that of the first stroke.
C15_StrokeElement ==
    NodeConverted =>
        LET stroked == Stroked(nodeData)
            solid   == SelectSeq(stroked, LAMBDA n : n.strokes[1].type = "solid")
            colors  == LinesOpening(xmlNodeOut, "<color ")
        IN  /\ LinesOpening(xmlNodeOut, "<stroke ")
                  = [i \in DOMAIN stroked |->
                        "<stroke weight=\""
                           \o (IF Has(stroked[i], "strokeWeight")
                               THEN ToString(stroked[i].strokeWeight) ELSE "1")
                           \o "\">"]
            /\ Len(LinesOpening(xmlNodeOut, "</stroke>")) = Len(stroked)
            /\ Len(colors) = Len(solid)
            /\ \A i \in DOMAIN solid :
                  StartsWith(colors[i],
                     "<color r=\"" \o ToString(solid[i].strokes[1].color.r)
                        \o "\" g=\"" \o ToString(solid[i].strokes[1].color.g)
                        \o "\" b=\"" \o ToString(solid[i].strokes[1].color.b) \o "\" ")

\* a rectangle whose stroke has the weight 0 is written with the weight 1
C15_Witness ==
    /\ NodeConverted
    /\ hostNode.type = "RECTANGLE"
    /\ hostNode.strokes = <<Black>>
    /\ hostNode.strokeWeight = 0
    /\ nodeData.strokeWeight = 0
    /\ LinesOpening(xmlNodeOut, "<stroke ") = <<"<stroke weight=\"1\">">>

(***************************************************************************)
(* Properties of the UI's handlers                                         *)
(***************************************************************************)
\* the step of handleDataReady in which its formatting throws
FormatFailed == OnDataReady /\ clipboardContent' = clipboardContent

\* what handleDataReady can fail with
FailureCauses == (FormatOutcomes \ {Formatted}) \cup WriteErrors

\* C16: in every step in which handleDataReady fails, because its formatting
\* throws or because its clipboard write is rejected, the status becomes an
\* error whose message ends with the cause of the failure, the status does
\* not become the success status, showInfo does not run (what the info box
\* shows is left as it was), nothing is written to the clipboard and the
\* export button is enabled.
C16_FailureIsSurfaced ==
    [][(FormatFailed \/ ClipboardRejected) =>
          /\ status'.type = "error"
          /\ \E cause \in FailureCauses :
                status'.message = "Failed to copy to clipboard: " \o cause
          /\ infoShown' = infoShown
          /\ clipboard' = clipboard
          /\ exportDisabled' = FALSE]_vars

\* the write of the first export was rejected: the error is shown, the button
\* is enabled, the info box is still hidden and the clipboard untouched
C16_Witness ==
    /\ exports = 1
    /\ lastExtractedData # NoData
    /\ status.type = "error"
    /\ status.message = "Failed to copy to clipboard: NotAllowedError"
    /\ ~exportDisabled
    /\ clipboardContent = <<>>
    /\ infoShown = NoData
    /\ clipboard = NoData

(***************************************************************************)
(* Properties of the messages between the sandbox and the UI               *)
(***************************************************************************)
\* the sandbox handles a 'process-selection' message in this step
ProcessSelectionHandled ==
    /\ sandboxInbox # <<>>
    /\ Head(sandboxInbox).type = "process-selection"
    /\ sandboxInbox' = Tail(sandboxInbox)

\* C17: every step in which the sandbox handles a 'process-selection'
\* message adds exactly one message to those sent to the UI, and
\* processSelection posted no other; it is of type 'error' when the selection
\* is empty or the extraction of one of its nodes throws, and otherwise of
\* type 'data-ready' with the Nodes of the selection, in order, and the
\* name, width and height of the current page.
C17_OneReply ==
    [][ProcessSelectionHandled =>
          /\ Len(uiInbox') = Len(uiInbox) + 1
          /\ SubSeq(uiInbox', 1, Len(uiInbox)) = uiInbox
          /\ sandboxRun'.posted = <<uiInbox'[Len(uiInbox')]>>
          /\ LET reply == uiInbox'[Len(uiInbox')]
             IN  IF selection = <<>> \/ ExtractionThrows(selection)
                 THEN /\ reply.type = "error"
                      /\ DOMAIN reply = {"type", "message"}
                 ELSE /\ reply.type = "data-ready"
                      /\ DOMAIN reply = {"type", "data", "pageInfo"}
                      /\ reply.data = [i \in DOMAIN selection |->
                                          extractNodeData(selection[i])]
                      /\ reply.pageInfo = [name   |-> CurrentPage.name,
                                           width  |-> CurrentPage.width,
                                           height |-> CurrentPage.height]]_vars

\* both replies happened: two exports were answered, the first with
\* 'data-ready' (its data were received), the second, of a selection whose
\* second node throws, with the error of the exception, which is waiting
C17_Witness ==
    /\ exports = 2
    /\ lastExtractedData # NoData
    /\ Len(lastExtractedData.nodes) = 1
    /\ Has(sandboxRun, "selection")
    /\ Len(sandboxRun.selection) = 2
    /\ sandboxRun.selection[2] = BrokenEllipse
    /\ Len(sandboxRun.extracted) = 2
    /\ uiInbox = <<[type |-> "error", message |-> "Error processing selection: TypeError"]>>

(***************************************************************************)
(* Properties of the export in flight                                      *)
(***************************************************************************)
\* the exports in flight: requests the sandbox has not handled, replies the
\* UI has not handled, calls of handleDataReady that await their write
InFlight ==
    Cardinality({i \in DOMAIN sandboxInbox : sandboxInbox[i].type = "process-selection"})
    + Len(uiInbox) + Len(clipboardContent)

\* at most one export is in flight, and the button is disabled while it is
OneExportInFlight ==
    /\ InFlight <= 1
    /\ InFlight = 1 => exportDisabled

\* a call of handleDataReady that awaits its write was given the data that
\* lastExtractedData holds, and the info box describes the data that were
\* written last: the count (an argument of showInfo) and the types (counted
\* in lastExtractedData) are those of one reply
InfoOfOneReply ==
    /\ \A i \in DOMAIN clipboardContent : clipboardContent[i].content = lastExtractedData
    /\ infoShown # NoData =>
          /\ infoShown.total = Len(clipboard.content.nodes)
          /\ infoShown.types = NodeTypeCounts(clipboard.content.nodes)
          /\ infoShown.page = clipboard.content.pageInfo.name

\* C18: at most one export is in flight and the export button is disabled
\* from the click until the reply is handled, the clipboard write included;
\* the lastExtractedData that showInfo reads is the data of the reply whose
\* object count it shows; and, the UI's events being dispatched, every reply
\* that waits for the UI leads to an enabled button.
C18_OneExportAtATime ==
    /\ [](OneExportInFlight /\ InfoOfOneReply)
    /\ (uiInbox # <<>>) ~> ~exportDisabled

\* a second export is awaiting its clipboard write, with the button disabled,
\* while the info box shows the first one
C18_Witness ==
    /\ exports = 2
    /\ exportDisabled
    /\ uiPc = "writing"
    /\ Len(clipboardContent) = 1
    /\ infoShown # NoData
    /\ infoShown.total = 1
    /\ Len(clipboardContent[1].content.nodes) = 2

(***************************************************************************)
(* Properties of the stroke of the shape records                           *)
(***************************************************************************)
\* the Node has a non-empty strokes list whose first stroke is solid
SolidFirstStroke(node) == HasPaints(node, "strokes") /\ node.strokes[1].type = "solid"

\* C19 (as claimed): the shape record of every Node with a non-empty strokes
\* list whose first stroke is solid has a stroke field with the color and
\* the opacity of that stroke, whatever the variant of the Node and whether
\* or not it has a strokeWeight.
C19_StrokeRecorded ==
    NodeConverted /\ SolidFirstStroke(nodeData) =>
        /\ Has(shapeOut, "stroke")
        /\ shapeOut.stroke.color = nodeData.strokes[1].color
        /\ PaintOpacity(shapeOut.stroke) = PaintOpacity(nodeData.strokes[1])

\* the Node of a ShapeWithText with one solid black stroke has no
\* strokeWeight, and its shape record has no stroke
C19_Witness ==
    /\ NodeConverted
    /\ hostNode.type = "SHAPE_WITH_TEXT"
    /\ hostNode.strokes = <<Black>>
    /\ nodeData.strokes = <<[type |-> "solid", color |-> [r |-> 0, g |-> 0, b |-> 0],
                             opacity |-> ChannelDen]>>
    /\ ~Has(nodeData, "strokeWeight")
    /\ ~Has(shapeOut, "stroke")

(***************************************************************************)
(* Properties of the opacity attributes of nodeToXML                       *)
(***************************************************************************)
\* the Node has a non-empty fills list whose first fill is solid
SolidFirstFill(node) == HasPaints(node, "fills") /\ node.fills[1].type = "solid"

\* the element that holds the color and the opacity of a solid paint
PaintElement(tag, paint, opacity) ==
    "<" \o tag \o " r=\"" \o ToString(paint.color.r)
        \o "\" g=\"" \o ToString(paint.color.g)
        \o "\" b=\"" \o ToString(paint.color.b)
        \o "\" opacity=\"" \o FracText(opacity) \o "\"/>"

\* C20 (as claimed): the XML of a node has one solid element for each Node
\* whose first fill is solid and one color element for each Node whose
\* first stroke is solid, and the opacity attribute of each is the opacity
\* of that paint, 0 included.
C20_OpacityWritten ==
    NodeConverted =>
        LET filled  == SelectSeq(Preorder(nodeData), SolidFirstFill)
            stroked == SelectSeq(Preorder(nodeData), SolidFirstStroke)
        IN  /\ LinesOpening(xmlNodeOut, "<solid ")
                  = [i \in DOMAIN filled |->
                        PaintElement("solid", filled[i].fills[1], filled[i].fills[1].opacity)]
            /\ LinesOpening(xmlNodeOut, "<color r=")
                  = [i \in DOMAIN stroked |->
                        PaintElement("color", stroked[i].strokes[1],
                                     stroked[i].strokes[1].opacity)]

\* a rectangle whose only fill is fully transparent is written with the
\* opacity 1
C20_Witness ==
    /\ NodeConverted
    /\ hostNode.type = "RECTANGLE"
    /\ hostNode.fills = <<SolidPaint(0, 20, ChannelDen) @@ [opacity |-> 0]>>
    /\ nodeData.fills[1].opacity = 0
    /\ LinesOpening(xmlNodeOut, "<solid ")
          = <<"<solid r=\"0\" g=\"51\" b=\"255\" opacity=\"1\"/>">>

(***************************************************************************)
(* Properties of the text element of nodeToXML                             *)
(***************************************************************************)
\* the first position from which sub occurs in str, at or after from; 0 if
\* there is none
RECURSIVE FindSub(_, _, _)
FindSub(str, sub, from) ==
    IF from + Len(sub) - 1 > Len(str) THEN 0
    ELSE IF SubSeq(str, from, from + Len(sub) - 1) = sub THEN from
    ELSE FindSub(str, sub, from + 1)

CDATAOpen == "<text><![CDATA["

\* what an XML reader takes as the CDATA block of a text element: the
\* characters up to the first ]]> after the opening
CDATAContent(line) ==
    SubSeq(line, Len(CDATAOpen) + 1, FindSub(line, "]]>", Len(CDATAOpen) + 1) - 1)

\* what follows the CDATA block in the line
AfterCDATA(line) ==
    SubSeq(line, FindSub(line, "]]>", Len(CDATAOpen) + 1) + 3, Len(line))

\* the Nodes that nodeToXML writes a text element for
Worded(nodes) == SelectSeq(nodes, LAMBDA n : TruthyString(n, "text"))

\* C21 (as claimed): the XML has one text element for each Node with a
\* non-empty text; the CDATA block of it holds the whole text, and the end
\* tag of the element follows the block at once, so that nothing of the
\* text is read as character data or as markup.
C21_TextInOneCDATA ==
    XMLWritten =>
        LET worded == Worded(PostedNodes)
            lines  == LinesOpening(xmlOut, "<text>")
        IN  /\ Len(lines) = Len(worded)
            /\ \A i \in DOMAIN lines :
                  /\ StartsWith(lines[i], CDATAOpen)
                  /\ CDATAContent(lines[i]) = worded[i].text
                  /\ AfterCDATA(lines[i]) = "</text>"

\* the text node whose characters hold ]]> and an id element was written:
\* the CDATA block ends after the first character and the id element
\* follows it in the document
C21_Witness ==
    /\ XMLWritten
    /\ Len(pipeSelection) = 1
    /\ pipeSelection[1].id = "4:10"
    /\ PostedNodes[1].text = "a]]><id>9:9</id><![CDATA[b"
    /\ LinesOpening(xmlOut, "<text>")
          = <<"<text><![CDATA[a]]><id>9:9</id><![CDATA[b]]></text>">>
    /\ CDATAContent(LinesOpening(xmlOut, "<text>")[1]) = "a"
    /\ StartsWith(AfterCDATA(LinesOpening(xmlOut, "<text>")[1]), "<id>9:9</id>")

(***************************************************************************)
(* Properties of the shapes of toJSON                                      *)
(***************************************************************************)
\* the shape records that a shape record holds: itself and, parents before
\* children, those nested in it
RECURSIVE ShapeRecords(_)
RECURSIVE ShapeRecordsAll(_)
ShapeRecords(shape) ==
    <<shape>> \o (IF Has(shape, "children") THEN ShapeRecordsAll(shape.children) ELSE <<>>)
ShapeRecordsAll(shapes) ==
    IF shapes = <<>> THEN <<>>
    ELSE ShapeRecords(Head(shapes)) \o ShapeRecordsAll(Tail(shapes))

\* C22 (as claimed): the output of toJSON holds one shape record for each
\* Node of the extracted trees, descendants of containers included, with
\* the type and the position of that Node; toXML, once written, has a shape
\* element for the same Nodes.
C22_EveryNodeHasAShape ==
    jsonOut # NoData =>
        LET records == ShapeRecordsAll(jsonOut.output.shapes)
            nodes   == PostedNodes
        IN  /\ Len(records) = Len(nodes)
            /\ \A i \in DOMAIN records :
                  /\ records[i].type = mapNodeTypeToPPTX(nodes[i].type)
                  /\ records[i].position = [x |-> nodes[i].x, y |-> nodes[i].y]
            /\ XMLWritten => Len(IdLines(xmlOut)) = Len(records)

\* the group that holds a frame of two leaves and a rectangle was exported:
\* five Nodes and five shape elements in the XML, one shape record in the
\* JSON, which holds no record of its children
C22_Witness ==
    /\ jsonOut # NoData
    /\ XMLWritten
    /\ Len(pipeSelection) = 1
    /\ pipeSelection[1].id = "4:2"
    /\ Len(PostedNodes) = 5
    /\ Len(IdLines(xmlOut)) = 5
    /\ Len(jsonOut.output.shapes) = 1
    /\ jsonOut.output.shapes[1].type = "group"
    /\ ~Has(jsonOut.output.shapes[1], "children")
    /\ Len(LinesOpening(jsonOut.text, "\"type\": ")) = 1

=============================================================================
